---------------------------- MODULE Spec2Model ----------------------------
(***************************************************************************)
(* A model of the Metamath database verifier of src/ctcheckmm-std.cpp      *)
(* (struct checkmm): the source reader, the scope stack, the symbol        *)
(* tables, the statement parsers, the assertion constructor, the           *)
(* compressed-proof decoder, the proof verifier and the driver run().      *)
(*                                                                         *)
(* A source text is a sequence of tokens (the maximal runs of non-white    *)
(* characters that nexttoken yields); a token is a string, and Chars gives *)
(* its characters, so that the predicates the code computes character by   *)
(* character are computed the same way here.                               *)
(***************************************************************************)
EXTENDS Integers, Sequences, FiniteSets, TLC

VARIABLES
    filename,     \* run's first argument
    text,         \* run's second argument (empty: read the file `filename`)
    pc,           \* position in run: "start", "loop" or "done"
    ret,          \* run's return value once pc = "done"
    names,        \* checkmm::names
    tokens,       \* checkmm::tokens
    constants,    \* checkmm::constants
    variables,    \* checkmm::variables
    hypotheses,   \* checkmm::hypotheses
    assertions,   \* checkmm::assertions
    scopes,       \* checkmm::scopes
    log,          \* one record per loop iteration of run: what it did
    call          \* a member function called on its own: arguments, result

vars == << filename, text, pc, ret, names, tokens, constants, variables,
           hypotheses, assertions, scopes, log, call >>

EXIT_SUCCESS == "EXIT_SUCCESS"
EXIT_FAILURE == "EXIT_FAILURE"

(***************************************************************************)
(* Characters and tokens                                                   *)
(***************************************************************************)

\* The spelling of every token of the model's inputs.
Spelling ==
    ( "$c" :> <<"$", "c">> ) @@
    ( "$v" :> <<"$", "v">> ) @@
    ( "$d" :> <<"$", "d">> ) @@
    ( "$f" :> <<"$", "f">> ) @@
    ( "$e" :> <<"$", "e">> ) @@
    ( "$a" :> <<"$", "a">> ) @@
    ( "$p" :> <<"$", "p">> ) @@
    ( "$." :> <<"$", ".">> ) @@
    ( "$=" :> <<"$", "=">> ) @@
    ( "${" :> <<"$", "{">> ) @@
    ( "$}" :> <<"$", "}">> ) @@
    ( "$(" :> <<"$", "(">> ) @@
    ( "$)" :> <<"$", ")">> ) @@
    ( "$[" :> <<"$", "[">> ) @@
    ( "$]" :> <<"$", "]">> ) @@
    ( "(" :> <<"(">> ) @@
    ( ")" :> <<")">> ) @@
    ( "?" :> <<"?">> ) @@
    ( "|-" :> <<"|", "-">> ) @@
    ( "wff" :> <<"w", "f", "f">> ) @@
    ( "x" :> <<"x">> ) @@
    ( "y" :> <<"y">> ) @@
    ( "z" :> <<"z">> ) @@
    ( "wx" :> <<"w", "x">> ) @@
    ( "wy" :> <<"w", "y">> ) @@
    ( "wz" :> <<"w", "z">> ) @@
    ( "w2" :> <<"w", "2">> ) @@
    ( "e1" :> <<"e", "1">> ) @@
    ( "e2" :> <<"e", "2">> ) @@
    ( "ax" :> <<"a", "x">> ) @@
    ( "a2" :> <<"a", "2">> ) @@
    ( "ad" :> <<"a", "d">> ) @@
    ( "ae" :> <<"a", "e">> ) @@
    ( "th" :> <<"t", "h">> ) @@
    ( "t2" :> <<"t", "2">> ) @@
    ( "a$b" :> <<"a", "$", "b">> ) @@
    ( "a$(b" :> <<"a", "$", "(", "b">> ) @@
    ( "a$)b" :> <<"a", "$", ")", "b">> ) @@
    ( "A" :> <<"A">> ) @@
    ( "B" :> <<"B">> ) @@
    ( "C" :> <<"C">> ) @@
    ( "D" :> <<"D">> ) @@
    ( "E" :> <<"E">> ) @@
    ( "AB" :> <<"A", "B">> ) @@
    ( "BA" :> <<"B", "A">> ) @@
    ( "AZ" :> <<"A", "Z">> ) @@
    ( "Z" :> <<"Z">> ) @@
    ( "UA" :> <<"U", "A">> ) @@
    ( "U" :> <<"U">> ) @@
    ( "A?" :> <<"A", "?">> ) @@
    ( "Ab" :> <<"A", "b">> ) @@
    ( "inc.mm" :> <<"i", "n", "c", ".", "m", "m">> ) @@
    ( "self.mm" :> <<"s", "e", "l", "f", ".", "m", "m">> ) @@
    ( "a.mm" :> <<"a", ".", "m", "m">> ) @@
    ( "b.mm" :> <<"b", ".", "m", "m">> ) @@
    ( "bad.mm" :> <<"b", "a", "d", ".", "m", "m">> ) @@
    ( "none.mm" :> <<"n", "o", "n", "e", ".", "m", "m">> )

Chars(token) == Spelling[token]

\* The characters of the inputs in ASCII order; Code is a character's rank.
Ascii ==
    << "$", "(", ")", "-", ".",
       "0", "1", "2", "3", "4", "5", "6", "7", "8", "9", "=", "?",
       "A", "B", "C", "D", "E", "F", "G", "H", "I", "J", "K", "L", "M",
       "N", "O", "P", "Q", "R", "S", "T", "U", "V", "W", "X", "Y", "Z",
       "[", "]", "_",
       "a", "b", "c", "d", "e", "f", "g", "h", "i", "j", "k", "l", "m",
       "n", "o", "p", "q", "r", "s", "t", "u", "v", "w", "x", "y", "z",
       "{", "|", "}" >>

CodeOf ==
    [ ch \in { Ascii[i] : i \in 1..Len(Ascii) } |->
        CHOOSE i \in 1..Len(Ascii) : Ascii[i] = ch ]

Code(ch) == CodeOf[ch]

isupper(ch) == Code(ch) >= Code("A") /\ Code(ch) <= Code("Z")

islower(ch) == Code(ch) >= Code("a") /\ Code(ch) <= Code("z")

isdigit(ch) == Code(ch) >= Code("0") /\ Code(ch) <= Code("9")

isalnum(ch) == isupper(ch) \/ islower(ch) \/ isdigit(ch)

\* std::string::find of a one- or two-character text
FindChar(token, ch) == \E i \in 1..Len(Chars(token)) : Chars(token)[i] = ch

FindTwo(token, c1, c2) ==
    \E i \in 1..(Len(Chars(token)) - 1) :
        Chars(token)[i] = c1 /\ Chars(token)[i + 1] = c2

islabeltoken(token) ==
    \A i \in 1..Len(Chars(token)) :
        LET ch == Chars(token)[i]
        IN  isalnum(ch) \/ ch = "." \/ ch = "-" \/ ch = "_"

ismathsymboltoken(token) == ~FindChar(token, "$")

containsonlyupperorq(token) ==
    \A i \in 1..Len(Chars(token)) :
        LET ch == Chars(token)[i] IN isupper(ch) \/ ch = "?"

\* operator< of std::string, the order std::set<std::string> iterates in
RECURSIVE SeqLess(_, _)
SeqLess(a, b) ==
    IF b = <<>> THEN FALSE
    ELSE IF a = <<>> THEN TRUE
    ELSE IF Code(Head(a)) # Code(Head(b)) THEN Code(Head(a)) < Code(Head(b))
    ELSE SeqLess(Tail(a), Tail(b))

StringLess(s, t) == SeqLess(Chars(s), Chars(t))

(***************************************************************************)
(* The checkmm object: the operators below take it as `app` (the C++       *)
(* `this`) and return the fields they change.                              *)
(***************************************************************************)

App ==
    [ names |-> names, tokens |-> tokens, constants |-> constants,
      variables |-> variables, hypotheses |-> hypotheses,
      assertions |-> assertions, scopes |-> scopes ]

\* A default-constructed Scope
Scope ==
    [ activevariables |-> {}, activehyp |-> <<>>, disjvars |-> <<>>,
      floatinghyp |-> <<>> ]

\* std::map::insert: an existing key keeps its value
MapInsert(m, k, v) == IF k \in DOMAIN m THEN m ELSE m @@ (k :> v)

\* Fault variant of labelused: the assertions are not looked at.
labelused_hyponly(app, label) == label \in DOMAIN app.hypotheses

labelused(app, label) ==
    label \in DOMAIN app.hypotheses \/ label \in DOMAIN app.assertions

\* Fault variant of getfloatinghyp: only the innermost scope is searched.
getfloatinghyp_innermost(app, var) ==
    IF app.scopes # <<>> /\ var \in DOMAIN app.scopes[Len(app.scopes)].floatinghyp
    THEN app.scopes[Len(app.scopes)].floatinghyp[var]
    ELSE ""

\* The scopes are searched from scopes.begin(); "" when no scope has var.
getfloatinghyp(app, var) ==
    LET hits == { i \in 1..Len(app.scopes) :
                    var \in DOMAIN app.scopes[i].floatinghyp }
    IN  IF hits = {} THEN ""
        ELSE LET first == CHOOSE i \in hits : \A j \in hits : i <= j
             IN  app.scopes[first].floatinghyp[var]

isactivevariable(app, str) ==
    \E i \in 1..Len(app.scopes) : str \in app.scopes[i].activevariables

isactivehyp(app, str) ==
    \E i \in 1..Len(app.scopes) :
        \E j \in 1..Len(app.scopes[i].activehyp) :
            app.scopes[i].activehyp[j] = str

isdvr(app, var1, var2) ==
    /\ var1 # var2
    /\ \E i \in 1..Len(app.scopes) :
          \E j \in 1..Len(app.scopes[i].disjvars) :
              /\ var1 \in app.scopes[i].disjvars[j]
              /\ var2 \in app.scopes[i].disjvars[j]

(***************************************************************************)
(* The source reader                                                       *)
(***************************************************************************)

\* The files on disk: what std::ifstream finds under each name.
Files ==
    ( "inc.mm"  :> << "$c", "wff", "$." >> ) @@
    ( "self.mm" :> << "$c", "wff", "$.", "$[", "self.mm", "$]" >> ) @@
    ( "a.mm"    :> << "$[", "b.mm", "$]", "$c", "wff", "$." >> ) @@
    ( "b.mm"    :> << "$[", "a.mm", "$]", "$c", "|-", "$." >> ) @@
    ( "bad.mm"  :> << "$c", "wff", "$.", "$(", "x" >> )

\* Fault variant of readtokensend: an open comment is not an error.
readtokensend_nocomment(app, incomment, infileinclusion) ==
    [ okay |-> ~infileinclusion, names |-> app.names, tokens |-> app.tokens ]

\* What readtokens does once the stream is at its end
readtokensend(app, incomment, infileinclusion) ==
    IF incomment
    THEN [ okay |-> FALSE, names |-> app.names, tokens |-> app.tokens ]
    ELSE IF infileinclusion
    THEN [ okay |-> FALSE, names |-> app.names, tokens |-> app.tokens ]
    ELSE [ okay |-> TRUE, names |-> app.names, tokens |-> app.tokens ]

RECURSIVE readtokens(_, _, _)

\* The loop goes on to the next token with these values
Continue(app, incomment, infileinclusion, newfilename) ==
    [ stop |-> FALSE, app |-> app, incomment |-> incomment,
      infileinclusion |-> infileinclusion, newfilename |-> newfilename ]

\* readtokens returns from inside the loop
Return(result) == [ stop |-> TRUE, result |-> result ]

\* Fault variant of readloopbody: the inclusion mode is looked at before the
\* comments.
readloopbody_first(app, token, incomment, infileinclusion, newfilename) ==
    LET fail == Return([ okay |-> FALSE, names |-> app.names,
                         tokens |-> app.tokens ])
    IN
    IF infileinclusion /\ ~incomment
    THEN IF newfilename = ""
         THEN IF FindChar(token, "$") THEN fail
              ELSE Continue(app, FALSE, TRUE, token)
         ELSE IF token # "$]" THEN fail
         ELSE LET r == readtokens(app, newfilename, <<>>)
                  app2 == [ app EXCEPT !.names = r.names,
                                       !.tokens = r.tokens ]
              IN  IF ~r.okay THEN Return(r)
                  ELSE Continue(app2, FALSE, FALSE, "")
    ELSE IF incomment
    THEN IF token = "$)"
         THEN Continue(app, FALSE, infileinclusion, newfilename)
         ELSE IF FindTwo(token, "$", "(") THEN fail
         ELSE IF FindTwo(token, "$", ")") THEN fail
         ELSE Continue(app, TRUE, infileinclusion, newfilename)
    ELSE IF token = "$("
    THEN Continue(app, TRUE, infileinclusion, newfilename)
    ELSE IF token = "$["
    THEN Continue(app, FALSE, TRUE, newfilename)
    ELSE Continue([ app EXCEPT !.tokens = Append(app.tokens, token) ],
                  FALSE, FALSE, newfilename)

\* One turn of the while loop of readtokens, on the token just read
readloopbody(app, token, incomment, infileinclusion, newfilename) ==
    LET fail == Return([ okay |-> FALSE, names |-> app.names,
                         tokens |-> app.tokens ])
    IN
    IF incomment
    THEN IF token = "$)"
         THEN Continue(app, FALSE, infileinclusion, newfilename)
         ELSE IF FindTwo(token, "$", "(") THEN fail
         ELSE IF FindTwo(token, "$", ")") THEN fail
         ELSE Continue(app, TRUE, infileinclusion, newfilename)
    ELSE IF token = "$("
    THEN Continue(app, TRUE, infileinclusion, newfilename)
    ELSE IF infileinclusion
    THEN IF newfilename = ""
         THEN IF FindChar(token, "$") THEN fail
              ELSE Continue(app, FALSE, TRUE, token)
         ELSE IF token # "$]" THEN fail
         ELSE LET r == readtokens(app, newfilename, <<>>)
                  app2 == [ app EXCEPT !.names = r.names,
                                       !.tokens = r.tokens ]
              IN  IF ~r.okay THEN Return(r)
                  ELSE Continue(app2, FALSE, FALSE, "")
    ELSE IF token = "$["
    THEN Continue(app, FALSE, TRUE, newfilename)
    ELSE Continue([ app EXCEPT !.tokens = Append(app.tokens, token) ],
                  FALSE, FALSE, newfilename)

RECURSIVE readturns(_, _, _, _)

\* The turns of the while loop of readtokens on the tokens first..last of the
\* stream `in`, in order, from the loop's values go; no turn is taken once
\* readtokens has returned. The turns are taken as two halves, one after the
\* other, which keeps the evaluation shallow on a long stream.
readturns(go, in, first, last) ==
    IF first > last \/ go.stop THEN go
    ELSE IF first = last
    THEN readloopbody(go.app, in[first], go.incomment, go.infileinclusion,
                      go.newfilename)
    ELSE readturns(readturns(go, in, first, (first + last) \div 2),
                   in, (first + last) \div 2 + 1, last)

\* The while loop of readtokens over the stream `in`, and what follows it
readloop(app, in, incomment, infileinclusion, newfilename) ==
    LET go == readturns(Continue(app, incomment, infileinclusion,
                                 newfilename), in, 1, Len(in))
    IN  IF go.stop THEN go.result
        ELSE readtokensend(go.app, go.incomment, go.infileinclusion)

\* Fault variant of readtokens: a name met again is an error.
readtokens_refuse(app, fname, txt) ==
    IF fname \in app.names
    THEN [ okay |-> FALSE, names |-> app.names, tokens |-> app.tokens ]
    ELSE LET app1 == [ app EXCEPT !.names = app.names \cup {fname} ]
         IN  IF txt # <<>>
             THEN readloop(app1, txt, FALSE, FALSE, "")
             ELSE IF fname \notin DOMAIN Files
             THEN [ okay |-> FALSE, names |-> app1.names,
                    tokens |-> app1.tokens ]
             ELSE readloop(app1, Files[fname], FALSE, FALSE, "")

readtokens(app, fname, txt) ==
    IF fname \in app.names
    THEN [ okay |-> TRUE, names |-> app.names, tokens |-> app.tokens ]
    ELSE LET app1 == [ app EXCEPT !.names = app.names \cup {fname} ]
         IN  IF txt # <<>>
             THEN readloop(app1, txt, FALSE, FALSE, "")
             ELSE IF fname \notin DOMAIN Files
             THEN [ okay |-> FALSE, names |-> app1.names,
                    tokens |-> app1.tokens ]
             ELSE readloop(app1, Files[fname], FALSE, FALSE, "")

(***************************************************************************)
(* The assertion constructor                                               *)
(***************************************************************************)

Range(seq) == { seq[i] : i \in 1..Len(seq) }

\* A default-constructed Assertion
Assertion == [ hypotheses |-> <<>>, disjvars |-> {}, expression |-> <<>> ]

\* Fault variant of push_front: the label goes to the back.
push_back(deque, x) == Append(deque, x)

\* std::deque::push_front
push_front(deque, x) == <<x>> \o deque

\* Fault variant of hypvariables: an essential hypothesis adds no variable.
hypvariables_none(app, hyp) == {}

\* The declared variables of a hypothesis' expression
hypvariables(app, hyp) == Range(hyp.first) \cap app.variables

RECURSIVE mandatoryhyps(_, _, _, _)

\* The two nested reverse loops of constructassertion, at hypothesis j of scope
\* i (both counted from 1; j = 0: scope i is finished). acc holds the deque
\* assertion.hypotheses and the set varsused.
mandatoryhyps(app, i, j, acc) ==
    IF i = 0 THEN acc
    ELSE IF j = 0
    THEN mandatoryhyps(app, i - 1,
                       IF i > 1 THEN Len(app.scopes[i - 1].activehyp) ELSE 0,
                       acc)
    ELSE LET label == app.scopes[i].activehyp[j]
             hyp == app.hypotheses[label]
         IN  IF hyp.second /\ hyp.first[2] \in acc.varsused
             THEN mandatoryhyps(app, i, j - 1,
                     [ acc EXCEPT !.hypotheses = push_front(@, label) ])
             ELSE IF ~hyp.second
             THEN mandatoryhyps(app, i, j - 1,
                     [ hypotheses |-> push_front(acc.hypotheses, label),
                       varsused |-> acc.varsused \cup
                                    hypvariables(app, hyp) ])
             ELSE mandatoryhyps(app, i, j - 1, acc)

\* Fault variant of mandatorydisjvars: the groups are not intersected with
\* the variables used.
mandatorydisjvars_allvars(app, varsused) ==
    UNION { UNION { LET dset == app.scopes[i].disjvars[j]
                    IN  { p \in dset \X dset : StringLess(p[1], p[2]) }
                    : j \in 1..Len(app.scopes[i].disjvars) }
            : i \in 1..Len(app.scopes) }

\* The mandatory disjoint variable restrictions: every pair of one active $d
\* group's variables that are used, the smaller string first.
mandatorydisjvars(app, varsused) ==
    UNION { UNION { LET dset == app.scopes[i].disjvars[j] \cap varsused
                    IN  { p \in dset \X dset : StringLess(p[1], p[2]) }
                    : j \in 1..Len(app.scopes[i].disjvars) }
            : i \in 1..Len(app.scopes) }

\* Fault variant of constructassertion: the map is assigned, not inserted
\* into, and holds the new assertion only.
constructassertion_onlynew(app, label, exp) ==
    LET n == Len(app.scopes)
        acc == mandatoryhyps(app, n,
                   IF n > 0 THEN Len(app.scopes[n].activehyp) ELSE 0,
                   [ hypotheses |-> <<>>,
                     varsused |-> Range(exp) \cap app.variables ])
    IN  label :> [ hypotheses |-> acc.hypotheses,
                   disjvars |-> mandatorydisjvars(app, acc.varsused),
                   expression |-> exp ]

\* Returns the assertions map with the new assertion under label.
constructassertion(app, label, exp) ==
    LET old == IF label \in DOMAIN app.assertions
               THEN app.assertions[label] ELSE Assertion
        n == Len(app.scopes)
        acc == mandatoryhyps(app, n,
                   IF n > 0 THEN Len(app.scopes[n].activehyp) ELSE 0,
                   [ hypotheses |-> old.hypotheses,
                     varsused |-> Range(exp) \cap app.variables ])
        assertion ==
            [ hypotheses |-> acc.hypotheses,
              disjvars |-> old.disjvars \cup
                           mandatorydisjvars(app, acc.varsused),
              expression |-> exp ]
    IN  [ l \in DOMAIN app.assertions \cup {label} |->
            IF l = label THEN assertion ELSE app.assertions[l] ]

(***************************************************************************)
(* Expressions and substitution                                            *)
(***************************************************************************)

RECURSIVE readexpressionloop(_, _, _, _)

\* Fault variant of readexpressionloop: an active variable is accepted without
\* a floating hypothesis.
readexpressionloop_active(app, toks, terminator, exp) ==
    IF toks # <<>> /\ Head(toks) # terminator
    THEN LET token == Head(toks)
         IN  IF token \notin app.constants /\ ~isactivevariable(app, token)
             THEN [ okay |-> FALSE, tokens |-> Tail(toks), exp |-> exp ]
             ELSE readexpressionloop(app, Tail(toks), terminator,
                                     Append(exp, token))
    ELSE IF toks = <<>>
    THEN [ okay |-> FALSE, tokens |-> toks, exp |-> exp ]
    ELSE [ okay |-> TRUE, tokens |-> Tail(toks), exp |-> exp ]

\* The while loop of readexpression and what follows it.
readexpressionloop(app, toks, terminator, exp) ==
    IF toks # <<>> /\ Head(toks) # terminator
    THEN LET token == Head(toks)
         IN  IF token \notin app.constants /\ getfloatinghyp(app, token) = ""
             THEN [ okay |-> FALSE, tokens |-> Tail(toks), exp |-> exp ]
             ELSE readexpressionloop(app, Tail(toks), terminator,
                                     Append(exp, token))
    ELSE IF toks = <<>>
    THEN [ okay |-> FALSE, tokens |-> toks, exp |-> exp ]
    ELSE [ okay |-> TRUE, tokens |-> Tail(toks), exp |-> exp ]

\* Fault variant of readexpression: the first token is not checked.
readexpression_anytype(app, terminator) ==
    IF app.tokens = <<>>
    THEN [ okay |-> FALSE, tokens |-> app.tokens, exp |-> <<>> ]
    ELSE readexpressionloop(app, Tail(app.tokens), terminator,
                            << Head(app.tokens) >>)

readexpression(app, terminator) ==
    IF app.tokens = <<>>
    THEN [ okay |-> FALSE, tokens |-> app.tokens, exp |-> <<>> ]
    ELSE LET type == Head(app.tokens)
         IN  IF type \notin app.constants
             THEN [ okay |-> FALSE, tokens |-> app.tokens, exp |-> <<>> ]
             ELSE readexpressionloop(app, Tail(app.tokens), terminator,
                                     <<type>>)

RECURSIVE makesubstitution(_, _)
makesubstitution(original, substmap) ==
    IF original = <<>> THEN <<>>
    ELSE ( IF Head(original) \notin DOMAIN substmap
           THEN << Head(original) >>
           ELSE substmap[Head(original)] )
         \o makesubstitution(Tail(original), substmap)

(***************************************************************************)
(* The compressed-proof decoder                                            *)
(***************************************************************************)

\* std::numeric_limits<std::size_t>::max() where size_t has 16 bits
size_max == 65535

\* Arithmetic on size_t: the value kept, and whether a value fits
Wrap(n) == n % (size_max + 1)
InRange(n) == n >= 0 /\ n <= size_max

\* Fault variant of overflow: the quotient is not compared first.
overflow_noquotient(num, factor, addval) ==
    [ yes |-> Wrap(factor * num) > Wrap(size_max - addval),
      wrapped |-> ~InRange(factor * num) \/ ~InRange(size_max - addval) ]

\* num > size_max / factor || factor * num > size_max - addval: its value,
\* and whether an operand that was evaluated left the range of size_t
overflow(num, factor, addval) ==
    IF num > size_max \div factor
    THEN [ yes |-> TRUE, wrapped |-> FALSE ]
    ELSE [ yes |-> Wrap(factor * num) > Wrap(size_max - addval),
           wrapped |-> ~InRange(factor * num) \/ ~InRange(size_max - addval) ]

RECURSIVE getproofnumbersloop_keepnum(_, _, _, _, _)

\* Fault variant of getproofnumbersloop: num is not reset after a number.
getproofnumbersloop_keepnum(proof, num, justgotnum, proofnumbers, wrapped) ==
    LET return(okay, error, w) ==
            [ okay |-> okay, error |-> error, proofnumbers |-> proofnumbers,
              wrapped |-> w ]
    IN
    IF proof = <<>>
    THEN IF num # 0 THEN return(FALSE, "unfinished number", wrapped)
         ELSE return(TRUE, "", wrapped)
    ELSE LET ch == Head(proof)
         IN  IF Code(ch) <= Code("T")
             THEN LET addval == Code(ch) - (Code("A") - 1)
                      o == overflow(num, 20, addval)
                  IN  IF o.yes
                      THEN return(FALSE, "Overflow", wrapped \/ o.wrapped)
                      ELSE getproofnumbersloop_keepnum(Tail(proof), num, TRUE,
                               Append(proofnumbers,
                                      Wrap(Wrap(20 * num) + addval)),
                               wrapped \/ o.wrapped
                                   \/ ~InRange(20 * num + addval))
             ELSE IF Code(ch) <= Code("Y")
             THEN LET addval == Code(ch) - Code("T")
                      o == overflow(num, 5, addval)
                  IN  IF o.yes
                      THEN return(FALSE, "Overflow", wrapped \/ o.wrapped)
                      ELSE getproofnumbersloop_keepnum(Tail(proof),
                               Wrap(Wrap(5 * num) + addval), FALSE,
                               proofnumbers,
                               wrapped \/ o.wrapped
                                   \/ ~InRange(5 * num + addval))
             ELSE IF ~justgotnum
             THEN return(FALSE, "Stray Z", wrapped)
             ELSE getproofnumbersloop_keepnum(Tail(proof), num, FALSE,
                                              Append(proofnumbers, 0), wrapped)

RECURSIVE getproofnumbersloop(_, _, _, _, _)

\* The for loop of getproofnumbers over the rest of the proof string, and the
\* test after it. error is the message written to cerr; wrapped tells whether
\* some size_t arithmetic of the turns so far left the range of size_t.
getproofnumbersloop(proof, num, justgotnum, proofnumbers, wrapped) ==
    LET return(okay, error, w) ==
            [ okay |-> okay, error |-> error, proofnumbers |-> proofnumbers,
              wrapped |-> w ]
    IN
    IF proof = <<>>
    THEN IF num # 0 THEN return(FALSE, "unfinished number", wrapped)
         ELSE return(TRUE, "", wrapped)
    ELSE LET ch == Head(proof)
         IN  IF Code(ch) <= Code("T")
             THEN LET addval == Code(ch) - (Code("A") - 1)
                      o == overflow(num, 20, addval)
                  IN  IF o.yes
                      THEN return(FALSE, "Overflow", wrapped \/ o.wrapped)
                      ELSE getproofnumbersloop(Tail(proof), 0, TRUE,
                               Append(proofnumbers,
                                      Wrap(Wrap(20 * num) + addval)),
                               wrapped \/ o.wrapped
                                   \/ ~InRange(20 * num + addval))
             ELSE IF Code(ch) <= Code("Y")
             THEN LET addval == Code(ch) - Code("T")
                      o == overflow(num, 5, addval)
                  IN  IF o.yes
                      THEN return(FALSE, "Overflow", wrapped \/ o.wrapped)
                      ELSE getproofnumbersloop(Tail(proof),
                               Wrap(Wrap(5 * num) + addval), FALSE,
                               proofnumbers,
                               wrapped \/ o.wrapped
                                   \/ ~InRange(5 * num + addval))
             ELSE IF ~justgotnum
             THEN return(FALSE, "Stray Z", wrapped)
             ELSE getproofnumbersloop(Tail(proof), num, FALSE,
                                      Append(proofnumbers, 0), wrapped)

\* Fault variant of getproofnumbers: num starts at 1.
getproofnumbers_numone(proof) ==
    getproofnumbersloop(proof, 1, FALSE, <<>>, FALSE)

\* Fault variant of getproofnumbers: justgotnum starts true.
getproofnumbers_justgot(proof) ==
    getproofnumbersloop(proof, 0, TRUE, <<>>, FALSE)

getproofnumbers(proof) == getproofnumbersloop(proof, 0, FALSE, <<>>, FALSE)

(***************************************************************************)
(* The proof verifier                                                      *)
(***************************************************************************)

RECURSIVE unify(_, _, _, _, _)

\* Fault variant of unify: the type of a floating hypothesis is not compared
\* with the first symbol of the stack slot.
unify_anytype(app, assertion, stack, i, substitutions) ==
    LET base == Len(stack) - Len(assertion.hypotheses) IN
    IF i > Len(assertion.hypotheses)
    THEN [ okay |-> TRUE, substitutions |-> substitutions ]
    ELSE LET hypothesis == app.hypotheses[assertion.hypotheses[i]]
             slot == stack[base + i]
         IN  IF hypothesis.second
             THEN LET var == hypothesis.first[2]
                      subst == ( IF var \in DOMAIN substitutions
                                 THEN substitutions[var] ELSE <<>> )
                               \o Tail(slot)
                  IN  unify(app, assertion, stack, i + 1,
                          [ v \in DOMAIN substitutions \cup {var} |->
                              IF v = var THEN subst
                              ELSE substitutions[v] ])
             ELSE IF makesubstitution(hypothesis.first, substitutions) # slot
                  THEN [ okay |-> FALSE, substitutions |-> substitutions ]
                  ELSE unify(app, assertion, stack, i + 1, substitutions)

\* The unification loop of verifyassertionref from hypothesis i on (counted
\* from 1); the stack slot of hypothesis i is stack[base + i].
unify(app, assertion, stack, i, substitutions) ==
    LET base == Len(stack) - Len(assertion.hypotheses) IN
    IF i > Len(assertion.hypotheses)
    THEN [ okay |-> TRUE, substitutions |-> substitutions ]
    ELSE LET hypothesis == app.hypotheses[assertion.hypotheses[i]]
             slot == stack[base + i]
         IN  IF hypothesis.second
             THEN IF hypothesis.first[1] # slot[1]
                  THEN [ okay |-> FALSE, substitutions |-> substitutions ]
                  ELSE LET var == hypothesis.first[2]
                           subst == ( IF var \in DOMAIN substitutions
                                      THEN substitutions[var] ELSE <<>> )
                                    \o Tail(slot)
                       IN  unify(app, assertion, stack, i + 1,
                               [ v \in DOMAIN substitutions \cup {var} |->
                                   IF v = var THEN subst
                                   ELSE substitutions[v] ])
             ELSE IF makesubstitution(hypothesis.first, substitutions) # slot
                  THEN [ okay |-> FALSE, substitutions |-> substitutions ]
                  ELSE unify(app, assertion, stack, i + 1, substitutions)

\* Fault variant of disjvarsokay: the two variables of the pair are compared
\* themselves, not the variables of their substitutions.
disjvarsokay_declared(app, assertion, substitutions) ==
    \A pair \in assertion.disjvars : isdvr(app, pair[1], pair[2])

\* The disjoint variable conditions of verifyassertionref
disjvarsokay(app, assertion, substitutions) ==
    \A pair \in assertion.disjvars :
        LET exp1vars == Range(substitutions[pair[1]]) \cap app.variables
            exp2vars == Range(substitutions[pair[2]]) \cap app.variables
        IN  \A v1 \in exp1vars : \A v2 \in exp2vars : isdvr(app, v1, v2)

\* Fault variant of verifyassertionref: the hypotheses are not removed from
\* the stack.
verifyassertionref_keep(app, reflabel, stack) ==
    LET assertion == app.assertions[reflabel]
        h == Len(assertion.hypotheses)
    IN  IF Len(stack) < h
        THEN [ okay |-> FALSE, stack |-> stack, ub |-> FALSE ]
        ELSE LET u == unify(app, assertion, stack, 1, <<>>)
             IN  IF ~u.okay
                 THEN [ okay |-> FALSE, stack |-> stack, ub |-> FALSE ]
                 ELSE IF \E pair \in assertion.disjvars :
                            \/ pair[1] \notin DOMAIN u.substitutions
                            \/ pair[2] \notin DOMAIN u.substitutions
                 THEN [ okay |-> FALSE, stack |-> stack, ub |-> TRUE ]
                 ELSE IF ~disjvarsokay(app, assertion, u.substitutions)
                 THEN [ okay |-> FALSE, stack |-> stack, ub |-> FALSE ]
                 ELSE [ okay |-> TRUE,
                        stack |-> Append(stack,
                            makesubstitution(assertion.expression,
                                             u.substitutions)),
                        ub |-> FALSE ]

\* ub: the step reads the end iterator of substitutions (a disjoint pair whose
\* variable has no substitution).
verifyassertionref(app, reflabel, stack) ==
    LET assertion == app.assertions[reflabel]
        h == Len(assertion.hypotheses)
    IN  IF Len(stack) < h
        THEN [ okay |-> FALSE, stack |-> stack, ub |-> FALSE ]
        ELSE LET u == unify(app, assertion, stack, 1, <<>>)
                 base == Len(stack) - h
                 erased == SubSeq(stack, 1, base)
             IN  IF ~u.okay
                 THEN [ okay |-> FALSE, stack |-> stack, ub |-> FALSE ]
                 ELSE IF \E pair \in assertion.disjvars :
                            \/ pair[1] \notin DOMAIN u.substitutions
                            \/ pair[2] \notin DOMAIN u.substitutions
                 THEN [ okay |-> FALSE, stack |-> erased, ub |-> TRUE ]
                 ELSE IF ~disjvarsokay(app, assertion, u.substitutions)
                 THEN [ okay |-> FALSE, stack |-> erased, ub |-> FALSE ]
                 ELSE [ okay |-> TRUE,
                        stack |-> Append(erased,
                            makesubstitution(assertion.expression,
                                             u.substitutions)),
                        ub |-> FALSE ]

\* Fault variant of proofend: a stack item that is not the theorem fails.
proofend_strict(theorem, stack) ==
    [ okay |-> Len(stack) = 1 /\ stack[1] = theorem.expression,
      stack |-> stack,
      wrong |-> Len(stack) = 1 /\ stack[1] # theorem.expression,
      ub |-> FALSE, ended |-> TRUE ]

\* The end of both verifiers, after the last step (ended): one item on the
\* stack, or failure; a stack item that is not the theorem is reported
\* (wrong) and the result is still true.
proofend(theorem, stack) ==
    IF Len(stack) # 1
    THEN [ okay |-> FALSE, stack |-> stack, wrong |-> FALSE, ub |-> FALSE,
           ended |-> TRUE ]
    ELSE [ okay |-> TRUE, stack |-> stack,
           wrong |-> stack[1] # theorem.expression, ub |-> FALSE,
           ended |-> TRUE ]

RECURSIVE regularsteps(_, _, _, _)

\* Fault variant of regularsteps: a hypothesis is pushed without its type
\* code.
regularsteps_notype(app, theorem, proof, stack) ==
    IF proof = <<>> THEN proofend(theorem, stack)
    ELSE LET proofstep == Head(proof)
         IN  IF proofstep \in DOMAIN app.hypotheses
             THEN regularsteps(app, theorem, Tail(proof),
                      Append(stack, Tail(app.hypotheses[proofstep].first)))
             ELSE LET r == verifyassertionref(app, proofstep, stack)
                  IN  IF ~r.okay
                      THEN [ okay |-> FALSE, stack |-> r.stack,
                             wrong |-> FALSE, ub |-> r.ub,
                             ended |-> FALSE ]
                      ELSE regularsteps(app, theorem, Tail(proof), r.stack)

\* The for loop of verifyregularproof over the rest of the proof
regularsteps(app, theorem, proof, stack) ==
    IF proof = <<>> THEN proofend(theorem, stack)
    ELSE LET proofstep == Head(proof)
         IN  IF proofstep \in DOMAIN app.hypotheses
             THEN regularsteps(app, theorem, Tail(proof),
                      Append(stack, app.hypotheses[proofstep].first))
             ELSE LET r == verifyassertionref(app, proofstep, stack)
                  IN  IF ~r.okay
                      THEN [ okay |-> FALSE, stack |-> r.stack,
                             wrong |-> FALSE, ub |-> r.ub,
                             ended |-> FALSE ]
                      ELSE regularsteps(app, theorem, Tail(proof), r.stack)

verifyregularproof(app, theorem, proof) ==
    regularsteps(app, theorem, proof, <<>>)

RECURSIVE compressedsteps(_, _, _, _, _, _)

\* Fault variant of compressedsteps: a number that is too high is passed over.
compressedsteps_skip(app, theorem, labels, proofnumbers, stack, savedsteps) ==
    LET mandhypt == Len(theorem.hypotheses)
        labelt == mandhypt + Len(labels)
        rest == Tail(proofnumbers)
        k == Head(proofnumbers)
    IN
    IF proofnumbers = <<>> THEN proofend(theorem, stack)
    ELSE IF k = 0
    THEN IF stack = <<>>
         THEN [ okay |-> FALSE, stack |-> stack, wrong |-> FALSE,
                ub |-> TRUE, ended |-> FALSE ]
         ELSE compressedsteps(app, theorem, labels, rest, stack,
                  Append(savedsteps, stack[Len(stack)]))
    ELSE IF k <= mandhypt
    THEN compressedsteps(app, theorem, labels, rest,
             Append(stack, app.hypotheses[theorem.hypotheses[k]].first),
             savedsteps)
    ELSE IF k <= labelt
    THEN LET proofstep == labels[k - mandhypt]
         IN  IF proofstep \in DOMAIN app.hypotheses
             THEN compressedsteps(app, theorem, labels, rest,
                      Append(stack, app.hypotheses[proofstep].first),
                      savedsteps)
             ELSE LET r == verifyassertionref(app, proofstep, stack)
                  IN  IF ~r.okay
                      THEN [ okay |-> FALSE, stack |-> r.stack,
                             wrong |-> FALSE, ub |-> r.ub,
                             ended |-> FALSE ]
                      ELSE compressedsteps(app, theorem, labels, rest,
                                           r.stack, savedsteps)
    ELSE IF k > labelt + Len(savedsteps)
    THEN compressedsteps(app, theorem, labels, rest, stack, savedsteps)
    ELSE compressedsteps(app, theorem, labels, rest,
             Append(stack, savedsteps[k - labelt]), savedsteps)

\* Fault variant of compressedsteps: a 0 takes the saved step off the stack.
compressedsteps_pop(app, theorem, labels, proofnumbers, stack, savedsteps) ==
    LET mandhypt == Len(theorem.hypotheses)
        labelt == mandhypt + Len(labels)
        rest == Tail(proofnumbers)
        k == Head(proofnumbers)
    IN
    IF proofnumbers = <<>> THEN proofend(theorem, stack)
    ELSE IF k = 0
    THEN IF stack = <<>>
         THEN [ okay |-> FALSE, stack |-> stack, wrong |-> FALSE,
                ub |-> TRUE, ended |-> FALSE ]
         ELSE compressedsteps(app, theorem, labels, rest,
                  SubSeq(stack, 1, Len(stack) - 1),
                  Append(savedsteps, stack[Len(stack)]))
    ELSE IF k <= mandhypt
    THEN compressedsteps(app, theorem, labels, rest,
             Append(stack, app.hypotheses[theorem.hypotheses[k]].first),
             savedsteps)
    ELSE IF k <= labelt
    THEN LET proofstep == labels[k - mandhypt]
         IN  IF proofstep \in DOMAIN app.hypotheses
             THEN compressedsteps(app, theorem, labels, rest,
                      Append(stack, app.hypotheses[proofstep].first),
                      savedsteps)
             ELSE LET r == verifyassertionref(app, proofstep, stack)
                  IN  IF ~r.okay
                      THEN [ okay |-> FALSE, stack |-> r.stack,
                             wrong |-> FALSE, ub |-> r.ub,
                             ended |-> FALSE ]
                      ELSE compressedsteps(app, theorem, labels, rest,
                                           r.stack, savedsteps)
    ELSE IF k > labelt + Len(savedsteps)
    THEN [ okay |-> FALSE, stack |-> stack, wrong |-> FALSE, ub |-> FALSE,
           ended |-> FALSE ]
    ELSE compressedsteps(app, theorem, labels, rest,
             Append(stack, savedsteps[k - labelt]), savedsteps)

\* The for loop of verifycompressedproof over the rest of the numbers
\* ub: a 0 read with an empty stack (stack.back() of an empty vector).
compressedsteps(app, theorem, labels, proofnumbers, stack, savedsteps) ==
    LET mandhypt == Len(theorem.hypotheses)
        labelt == mandhypt + Len(labels)
        rest == Tail(proofnumbers)
        k == Head(proofnumbers)
    IN
    IF proofnumbers = <<>> THEN proofend(theorem, stack)
    ELSE IF k = 0
    THEN IF stack = <<>>
         THEN [ okay |-> FALSE, stack |-> stack, wrong |-> FALSE,
                ub |-> TRUE, ended |-> FALSE ]
         ELSE compressedsteps(app, theorem, labels, rest, stack,
                  Append(savedsteps, stack[Len(stack)]))
    ELSE IF k <= mandhypt
    THEN compressedsteps(app, theorem, labels, rest,
             Append(stack, app.hypotheses[theorem.hypotheses[k]].first),
             savedsteps)
    ELSE IF k <= labelt
    THEN LET proofstep == labels[k - mandhypt]
         IN  IF proofstep \in DOMAIN app.hypotheses
             THEN compressedsteps(app, theorem, labels, rest,
                      Append(stack, app.hypotheses[proofstep].first),
                      savedsteps)
             ELSE LET r == verifyassertionref(app, proofstep, stack)
                  IN  IF ~r.okay
                      THEN [ okay |-> FALSE, stack |-> r.stack,
                             wrong |-> FALSE, ub |-> r.ub,
                             ended |-> FALSE ]
                      ELSE compressedsteps(app, theorem, labels, rest,
                                           r.stack, savedsteps)
    ELSE IF k > labelt + Len(savedsteps)
    THEN [ okay |-> FALSE, stack |-> stack, wrong |-> FALSE, ub |-> FALSE,
           ended |-> FALSE ]
    ELSE compressedsteps(app, theorem, labels, rest,
             Append(stack, savedsteps[k - labelt]), savedsteps)

verifycompressedproof(app, theorem, labels, proofnumbers) ==
    compressedsteps(app, theorem, labels, proofnumbers, <<>>, <<>>)

(***************************************************************************)
(* The statement parsers. Each returns okay, the checkmm object as the     *)
(* parser leaves it (also when it fails), and what the proof verifier did. *)
(***************************************************************************)

\* No proof was looked at.
NoProof ==
    [ form |-> "none", incomplete |-> FALSE, ran |-> FALSE, ended |-> FALSE,
      okay |-> FALSE, stack |-> <<>>, wrong |-> FALSE, ub |-> FALSE ]

Result(okay, app, proof) == [ okay |-> okay, app |-> app, proof |-> proof ]

RECURSIVE compressedlabels(_, _, _, _, _)

\* Fault variant of compressedlabels: the theorem's own label is not looked
\* for.
compressedlabels_noself(app, label, assertion, toks, labels) ==
    IF toks # <<>> /\ Head(toks) # ")"
    THEN LET token == Head(toks)
             bad == [ okay |-> FALSE, tokens |-> Tail(toks),
                      labels |-> Append(labels, token) ]
         IN  IF token \in Range(assertion.hypotheses) THEN bad
             ELSE IF token \notin DOMAIN app.assertions
                     /\ ~isactivehyp(app, token) THEN bad
             ELSE compressedlabels(app, label, assertion, Tail(toks),
                                   Append(labels, token))
    ELSE [ okay |-> TRUE, tokens |-> toks, labels |-> labels ]

\* The label list loop of a compressed proof
compressedlabels(app, label, assertion, toks, labels) ==
    IF toks # <<>> /\ Head(toks) # ")"
    THEN LET token == Head(toks)
             bad == [ okay |-> FALSE, tokens |-> Tail(toks),
                      labels |-> Append(labels, token) ]
         IN  IF token = label THEN bad
             ELSE IF token \in Range(assertion.hypotheses) THEN bad
             ELSE IF token \notin DOMAIN app.assertions
                     /\ ~isactivehyp(app, token) THEN bad
             ELSE compressedlabels(app, label, assertion, Tail(toks),
                                   Append(labels, token))
    ELSE [ okay |-> TRUE, tokens |-> toks, labels |-> labels ]

RECURSIVE compressedstring(_, _)

\* The proof string loop of a compressed proof; proof is the string's
\* characters.
compressedstring(toks, proof) ==
    IF toks # <<>> /\ Head(toks) # "$."
    THEN LET token == Head(toks)
         IN  IF ~containsonlyupperorq(token)
             THEN [ okay |-> FALSE, tokens |-> Tail(toks),
                    proof |-> proof \o Chars(token) ]
             ELSE compressedstring(Tail(toks), proof \o Chars(token))
    ELSE [ okay |-> TRUE, tokens |-> toks, proof |-> proof ]

\* parsep from the "(" of a compressed proof on
parsepcompressed(app, label, assertion) ==
    LET form == [ NoProof EXCEPT !.form = "compressed" ]
        l == compressedlabels(app, label, assertion, Tail(app.tokens), <<>>)
        c == compressedstring(Tail(l.tokens), <<>>)
        appl == [ app EXCEPT !.tokens = l.tokens ]
        appc == [ app EXCEPT !.tokens = c.tokens ]
        append == [ app EXCEPT !.tokens = Tail(c.tokens) ]
        n == getproofnumbers(c.proof)
        v == verifycompressedproof(append, assertion, l.labels,
                                   n.proofnumbers)
    IN  IF ~l.okay THEN Result(FALSE, appl, form)
        ELSE IF l.tokens = <<>> THEN Result(FALSE, appl, form)
        ELSE IF ~c.okay THEN Result(FALSE, appc, form)
        ELSE IF c.tokens = <<>> THEN Result(FALSE, appc, form)
        ELSE IF c.proof = <<>> THEN Result(FALSE, appc, form)
        ELSE IF "?" \in Range(c.proof)
        THEN Result(TRUE, append, [ form EXCEPT !.incomplete = TRUE ])
        ELSE IF ~n.okay THEN Result(FALSE, append, form)
        ELSE Result(v.okay, append,
                 [ form |-> "compressed", incomplete |-> FALSE, ran |-> TRUE,
                   ended |-> v.ended, okay |-> v.okay, stack |-> v.stack, wrong |-> v.wrong,
                   ub |-> v.ub ])

RECURSIVE regularlabels(_, _, _, _, _)

\* Fault variant of regularlabels: "?" is a label like any other.
regularlabels_noquestion(app, label, toks, proof, incomplete) ==
    IF toks # <<>> /\ Head(toks) # "$."
    THEN LET token == Head(toks)
             bad == [ okay |-> FALSE, tokens |-> Tail(toks),
                      proof |-> Append(proof, token),
                      incomplete |-> incomplete ]
         IN  IF token = label THEN bad
             ELSE IF token \notin DOMAIN app.assertions
                     /\ ~isactivehyp(app, token) THEN bad
             ELSE regularlabels(app, label, Tail(toks), Append(proof, token),
                                incomplete)
    ELSE [ okay |-> TRUE, tokens |-> toks, proof |-> proof,
           incomplete |-> incomplete ]

\* The label loop of a regular proof
regularlabels(app, label, toks, proof, incomplete) ==
    IF toks # <<>> /\ Head(toks) # "$."
    THEN LET token == Head(toks)
             bad == [ okay |-> FALSE, tokens |-> Tail(toks),
                      proof |-> Append(proof, token),
                      incomplete |-> incomplete ]
         IN  IF token = "?"
             THEN regularlabels(app, label, Tail(toks), Append(proof, token),
                                TRUE)
             ELSE IF token = label THEN bad
             ELSE IF token \notin DOMAIN app.assertions
                     /\ ~isactivehyp(app, token) THEN bad
             ELSE regularlabels(app, label, Tail(toks), Append(proof, token),
                                incomplete)
    ELSE [ okay |-> TRUE, tokens |-> toks, proof |-> proof,
           incomplete |-> incomplete ]

\* parsep from the first token of a regular proof on
parsepregular(app, label, assertion) ==
    LET form == [ NoProof EXCEPT !.form = "regular" ]
        l == regularlabels(app, label, app.tokens, <<>>, FALSE)
        appl == [ app EXCEPT !.tokens = l.tokens ]
        append == [ app EXCEPT !.tokens = Tail(l.tokens) ]
        v == verifyregularproof(append, assertion, l.proof)
    IN  IF ~l.okay THEN Result(FALSE, appl, form)
        ELSE IF l.tokens = <<>> THEN Result(FALSE, appl, form)
        ELSE IF l.proof = <<>> THEN Result(FALSE, appl, form)
        ELSE IF l.incomplete
        THEN Result(TRUE, append, [ form EXCEPT !.incomplete = TRUE ])
        ELSE Result(v.okay, append,
                 [ form |-> "regular", incomplete |-> FALSE, ran |-> TRUE,
                   ended |-> v.ended, okay |-> v.okay, stack |-> v.stack, wrong |-> v.wrong,
                   ub |-> v.ub ])

parsep(app, label) ==
    LET e == readexpression(app, "$=")
        app1 == [ app EXCEPT !.tokens = e.tokens,
                             !.assertions =
                                 constructassertion(app, label, e.exp) ]
        assertion == app1.assertions[label]
    IN  IF ~e.okay
        THEN Result(FALSE, [ app EXCEPT !.tokens = e.tokens ], NoProof)
        ELSE IF app1.tokens = <<>> THEN Result(FALSE, app1, NoProof)
        ELSE IF Head(app1.tokens) = "("
        THEN parsepcompressed(app1, label, assertion)
        ELSE parsepregular(app1, label, assertion)

\* scopes.back().activehyp.push_back(label)
pushactivehyp(scopes_, label) ==
    [ scopes_ EXCEPT ![Len(scopes_)].activehyp = Append(@, label) ]

parsee(app, label) ==
    LET e == readexpression(app, "$.")
    IN  IF ~e.okay
        THEN Result(FALSE, [ app EXCEPT !.tokens = e.tokens ], NoProof)
        ELSE Result(TRUE,
                 [ app EXCEPT
                     !.tokens = e.tokens,
                     !.hypotheses = MapInsert(@, label,
                         [ first |-> e.exp, second |-> FALSE ]),
                     !.scopes = pushactivehyp(@, label) ],
                 NoProof)

parsea(app, label) ==
    LET e == readexpression(app, "$.")
    IN  IF ~e.okay
        THEN Result(FALSE, [ app EXCEPT !.tokens = e.tokens ], NoProof)
        ELSE Result(TRUE,
                 [ app EXCEPT
                     !.tokens = e.tokens,
                     !.assertions = constructassertion(app, label, e.exp) ],
                 NoProof)

\* Fault variant of parsef: a variable that has an active floating hypothesis
\* is given another one.
parsef_again(app, label) ==
    LET toks == app.tokens
        type == toks[1]
        variable == toks[2]
        pop1 == [ app EXCEPT !.tokens = Tail(toks) ]
        pop2 == [ app EXCEPT !.tokens = Tail(Tail(toks)) ]
        n == Len(app.scopes)
    IN  IF toks = <<>> THEN Result(FALSE, app, NoProof)
        ELSE IF type \notin app.constants THEN Result(FALSE, app, NoProof)
        ELSE IF Len(toks) = 1 THEN Result(FALSE, pop1, NoProof)
        ELSE IF ~isactivevariable(app, variable)
        THEN Result(FALSE, pop1, NoProof)
        ELSE IF Len(toks) = 2 THEN Result(FALSE, pop2, NoProof)
        ELSE IF toks[3] # "$." THEN Result(FALSE, pop2, NoProof)
        ELSE Result(TRUE,
                 [ app EXCEPT
                     !.tokens = SubSeq(toks, 4, Len(toks)),
                     !.hypotheses = MapInsert(@, label,
                         [ first |-> << type, variable >>,
                           second |-> TRUE ]),
                     !.scopes = [ pushactivehyp(@, label) EXCEPT
                         ![n].floatinghyp = MapInsert(@, variable, label) ] ],
                 NoProof)

parsef(app, label) ==
    LET toks == app.tokens
        type == toks[1]
        variable == toks[2]
        pop1 == [ app EXCEPT !.tokens = Tail(toks) ]
        pop2 == [ app EXCEPT !.tokens = Tail(Tail(toks)) ]
        n == Len(app.scopes)
    IN  IF toks = <<>> THEN Result(FALSE, app, NoProof)
        ELSE IF type \notin app.constants THEN Result(FALSE, app, NoProof)
        ELSE IF Len(toks) = 1 THEN Result(FALSE, pop1, NoProof)
        ELSE IF ~isactivevariable(app, variable)
        THEN Result(FALSE, pop1, NoProof)
        ELSE IF getfloatinghyp(app, variable) # ""
        THEN Result(FALSE, pop1, NoProof)
        ELSE IF Len(toks) = 2 THEN Result(FALSE, pop2, NoProof)
        ELSE IF toks[3] # "$." THEN Result(FALSE, pop2, NoProof)
        ELSE Result(TRUE,
                 [ app EXCEPT
                     !.tokens = SubSeq(toks, 4, Len(toks)),
                     !.hypotheses = MapInsert(@, label,
                         [ first |-> << type, variable >>,
                           second |-> TRUE ]),
                     !.scopes = [ pushactivehyp(@, label) EXCEPT
                         ![n].floatinghyp = MapInsert(@, variable, label) ] ],
                 NoProof)

parselabel(app, label) ==
    LET type == Head(app.tokens)
        app1 == [ app EXCEPT !.tokens = Tail(app.tokens) ]
    IN  IF label \in app.constants THEN Result(FALSE, app, NoProof)
        ELSE IF label \in app.variables THEN Result(FALSE, app, NoProof)
        ELSE IF labelused(app, label) THEN Result(FALSE, app, NoProof)
        ELSE IF app.tokens = <<>> THEN Result(FALSE, app, NoProof)
        ELSE IF type = "$p" THEN parsep(app1, label)
        ELSE IF type = "$e" THEN parsee(app1, label)
        ELSE IF type = "$a" THEN parsea(app1, label)
        ELSE IF type = "$f" THEN parsef(app1, label)
        ELSE Result(FALSE, app1, NoProof)

RECURSIVE parsedloop(_, _, _)

\* The while loop of parsed
parsedloop(app, toks, dvars) ==
    IF toks # <<>> /\ Head(toks) # "$."
    THEN LET token == Head(toks)
         IN  IF ~isactivevariable(app, token)
             THEN [ okay |-> FALSE, tokens |-> Tail(toks), dvars |-> dvars ]
             ELSE IF token \in dvars
             THEN [ okay |-> FALSE, tokens |-> Tail(toks), dvars |-> dvars ]
             ELSE parsedloop(app, Tail(toks), dvars \cup {token})
    ELSE [ okay |-> TRUE, tokens |-> toks, dvars |-> dvars ]

parsed(app) ==
    LET d == parsedloop(app, app.tokens, {})
        appd == [ app EXCEPT !.tokens = d.tokens ]
    IN  IF ~d.okay THEN Result(FALSE, appd, NoProof)
        ELSE IF d.tokens = <<>> THEN Result(FALSE, appd, NoProof)
        ELSE IF Cardinality(d.dvars) < 2 THEN Result(FALSE, appd, NoProof)
        ELSE Result(TRUE,
                 [ app EXCEPT
                     !.tokens = Tail(d.tokens),
                     !.scopes[Len(app.scopes)].disjvars = Append(@, d.dvars) ],
                 NoProof)

RECURSIVE parsecloop(_, _)

\* The while loop of parsec and what follows it
parsecloop(app, listempty) ==
    IF app.tokens # <<>> /\ Head(app.tokens) # "$."
    THEN LET token == Head(app.tokens)
             app1 == [ app EXCEPT !.tokens = Tail(app.tokens) ]
         IN  IF ~ismathsymboltoken(token) THEN Result(FALSE, app1, NoProof)
             ELSE IF token \in app.variables
             THEN Result(FALSE, app1, NoProof)
             ELSE IF labelused(app, token) THEN Result(FALSE, app1, NoProof)
             ELSE IF token \in app.constants
             THEN Result(FALSE, app1, NoProof)
             ELSE parsecloop([ app1 EXCEPT !.constants = @ \cup {token} ],
                             FALSE)
    ELSE IF app.tokens = <<>> THEN Result(FALSE, app, NoProof)
    ELSE IF listempty THEN Result(FALSE, app, NoProof)
    ELSE Result(TRUE, [ app EXCEPT !.tokens = Tail(app.tokens) ], NoProof)

\* Fault variant of parsec: the outermost scope counts as an inner block.
parsec_noscope(app) ==
    IF Len(app.scopes) >= 1 THEN Result(FALSE, app, NoProof)
    ELSE parsecloop(app, TRUE)

parsec(app) ==
    IF Len(app.scopes) > 1 THEN Result(FALSE, app, NoProof)
    ELSE parsecloop(app, TRUE)

RECURSIVE parsevloop(_, _)

\* The while loop of parsev and what follows it
parsevloop(app, listempty) ==
    IF app.tokens # <<>> /\ Head(app.tokens) # "$."
    THEN LET token == Head(app.tokens)
             app1 == [ app EXCEPT !.tokens = Tail(app.tokens) ]
         IN  IF ~ismathsymboltoken(token) THEN Result(FALSE, app1, NoProof)
             ELSE IF token \in app.constants
             THEN Result(FALSE, app1, NoProof)
             ELSE IF labelused(app, token) THEN Result(FALSE, app1, NoProof)
             ELSE IF isactivevariable(app, token)
             THEN Result(FALSE, app1, NoProof)
             ELSE parsevloop(
                      [ app1 EXCEPT
                          !.variables = @ \cup {token},
                          !.scopes[Len(app.scopes)].activevariables =
                              @ \cup {token} ],
                      FALSE)
    ELSE IF app.tokens = <<>> THEN Result(FALSE, app, NoProof)
    ELSE IF listempty THEN Result(FALSE, app, NoProof)
    ELSE Result(TRUE, [ app EXCEPT !.tokens = Tail(app.tokens) ], NoProof)

parsev(app) == parsevloop(app, TRUE)

(***************************************************************************)
(* The inputs: the databases run is given                                  *)
(***************************************************************************)

\* The most statements that follow a database's preamble
MaxStmts == 2
\* The most symbols of a database that is one $c statement
MaxSyms == 3
\* The most tokens of a database of comment and inclusion tokens
MaxRead == 3

SeqUpTo(S, n) == UNION { [1..k -> S] : k \in 0..n }

RECURSIVE Flatten(_)
Flatten(seqs) ==
    IF seqs = <<>> THEN <<>> ELSE Head(seqs) \o Flatten(Tail(seqs))

DeclC == << "$c", "wff", "|-", "$." >>
DeclV == << "$v", "x", "y", "$." >>
FloatX == << "wx", "$f", "wff", "x", "$." >>
FloatY == << "wy", "$f", "wff", "y", "$." >>
EssX == << "e1", "$e", "|-", "x", "$." >>
EssY == << "e2", "$e", "|-", "y", "$." >>
AxiomX == << "ax", "$a", "|-", "x", "$." >>

\* How a database starts
Preambles ==
    { <<>>,
      DeclC \o DeclV,
      DeclC \o DeclV \o FloatX \o FloatY,
      DeclC \o DeclV \o FloatX \o FloatY \o AxiomX,
      DeclC \o DeclV \o FloatX \o << "${" >> \o FloatY \o EssY }

\* The statements that follow the preamble
Statements ==
    { DeclC, DeclV, FloatX, FloatY, EssX, AxiomX,
      << "$c", "x", "$." >>,
      << "$v", "wff", "$." >>,
      << "$c", "ax", "$." >>,
      << "$v", "ax", "$." >>,
      << "${" >>,
      << "$}" >>,
      << "w2", "$f", "wff", "y", "$." >>,
      << "$d", "x", "y", "$." >>,
      << "a2", "$a", "|-", "x", "y", "$." >>,
      << "a2", "$a", "wff", "$." >>,
      << "wff", "$a", "wff", "$." >>,
      << "x", "$e", "|-", "x", "$." >>,
      << "th", "$p", "|-", "x", "$=", "wx", "ax", "$." >>,
      << "th", "$p", "wff", "x", "$=", "wx", "ax", "$." >>,
      << "th", "$p", "|-", "x", "$=", "?", "$." >>,
      << "th", "$p", "|-", "x", "$=", "e1", "$." >>,
      << "th", "$p", "|-", "x", "$=", "wx", "wx", "$." >>,
      << "th", "$p", "|-", "x", "$=", "(", "ax", ")", "A", "B", "$." >>,
      << "t2", "$p", "wff", "x", "$=", "(", "ax", ")", "AB", "$." >> }

\* The symbols of the databases that are one $c statement
CSymbols == { "wff", "|-", "x", "a$b" }

\* The tokens of the databases of comments and inclusions
ReadTokens == { "$(", "$)", "$[", "$]", "inc.mm", "bad.mm", "a$(b", "wff" }

\* The names run is given to read from disk (none.mm is not on disk)
DiskNames == { "inc.mm", "self.mm", "a.mm", "bad.mm", "none.mm" }

Databases ==
    { pre \o Flatten(body) :
          pre \in Preambles, body \in SeqUpTo(Statements, MaxStmts) }
    \cup { << "$c" >> \o syms \o << "$." >> :
               syms \in SeqUpTo(CSymbols, MaxSyms) }
    \cup SeqUpTo(ReadTokens, MaxRead)

\* The most tokens of a proof: of a regular proof, and of a compressed proof
\* after its "("
MaxProof == 3

DeclD == << "$d", "x", "y", "$." >>
EssE == << "e2", "$e", "|-", "x", "$." >>
AxiomY == << "a2", "$a", "|-", "y", "$." >>

\* What comes before and after the theorem of a database with one theorem:
\* no block; a block with an essential hypothesis, closed before the theorem;
\* a block with a $d and an essential hypothesis around the theorem.
ProofFrames ==
    { [ before |-> DeclC \o DeclV \o FloatX \o FloatY \o AxiomX,
        after |-> AxiomY ],
      [ before |-> DeclC \o DeclV \o FloatX \o FloatY \o AxiomX
                   \o << "${" >> \o EssE \o << "$}" >>,
        after |-> AxiomY ],
      [ before |-> DeclC \o DeclV \o FloatX \o FloatY \o AxiomX
                   \o << "${" >> \o DeclD \o EssE,
        after |-> AxiomY \o << "$}" >> ] }

\* The tokens of the regular proofs and of the compressed proofs
RegularTokens == { "wx", "ax", "th", "e2", "a2", "?", "$." }
CompressedTokens == { ")", "ax", "th", "wx", "e2", "a2", "A", "AB", "?" }

Proofs ==
    SeqUpTo(RegularTokens, MaxProof)
    \cup { << "(" >> \o p : p \in SeqUpTo(CompressedTokens, MaxProof) }

\* The databases of one theorem, "th $p |- x $= proof $.", in a frame
ProofDatabases ==
    { f.before \o << "th", "$p", "|-", "x", "$=" >> \o proof \o << "$." >>
          \o f.after : f \in ProofFrames, proof \in Proofs }

\* The most labels of a regular proof and the most characters of a compressed
\* proof in the databases that exercise the proof verifier
MaxSteps == 3
MaxLetters == 3

AxiomD == << "ad", "$a", "|-", "x", "y", "$." >>
AxiomE == << "ae", "$a", "|-", "x", "$." >>

\* Three axioms: "ax" with one floating hypothesis; "ad" with two floating
\* hypotheses and a disjoint variable pair; "ae" with a floating and an
\* essential hypothesis
VerifyBase ==
    DeclC \o DeclV \o FloatX \o FloatY \o AxiomX
    \o << "${" >> \o DeclD \o AxiomD \o << "$}" >>
    \o << "${" >> \o EssX \o AxiomE \o << "$}" >>

\* The theorem "th $p |- y $= proof $." in a block with the essential
\* hypothesis "e2 $e |- y $.", with or without a $d
RegularDatabases ==
    { VerifyBase \o before \o << "th", "$p", "|-", "y", "$=" >> \o proof
          \o << "$.", "$}" >> :
          before \in { << "${" >> \o DeclD \o EssY, << "${" >> \o EssY },
          proof \in SeqUpTo({ "wx", "wy", "e2", "ad", "ae" }, MaxSteps) }

\* The theorem with a compressed proof: outside any block with the label
\* "ax", and in a block with a $d and the essential hypothesis with the labels
\* "wx ad"; every character of the proof is a token
CompressedDatabases ==
    { f.before \o << "th", "$p", "|-", "y", "$=", "(" >> \o f.labels
          \o << ")" >> \o letters \o << "$." >> \o f.after :
          f \in { [ before |-> VerifyBase, labels |-> << "ax" >>,
                    after |-> <<>> ],
                  [ before |-> VerifyBase \o << "${" >> \o DeclD \o EssY,
                    labels |-> << "wx", "ad" >>, after |-> << "$}" >> ] },
          letters \in SeqUpTo({ "A", "B", "C", "D", "E", "Z" }, MaxLetters) }

\* The statements that are put before or inside a block, in this order
BlockStatements ==
    << << "$v", "x", "$." >>, FloatX, << "$v", "y", "$." >>, FloatY, DeclD,
       EssX >>

\* What follows the block: nothing; the variable y declared and given a
\* floating hypothesis again; the floating hypothesis alone; an axiom; a
\* theorem whose proof names the essential hypothesis; a $d
AfterBlock ==
    { <<>>,
      << "$v", "y", "$.", "w2", "$f", "wff", "y", "$." >>,
      << "w2", "$f", "wff", "y", "$." >>,
      AxiomX,
      << "th", "$p", "|-", "x", "$=", "e1", "$." >>,
      DeclD }

\* The databases of one block: the first statements of BlockStatements before
\* it and the others inside it, the whole in the outermost scope or in a
\* block of its own that is left open
ScopeDatabases ==
    { DeclC \o outer
          \o Flatten(SubSeq(BlockStatements, 1, s)) \o << "${" >>
          \o Flatten(SubSeq(BlockStatements, s + 1, Len(BlockStatements)))
          \o << "$}" >> \o post :
          outer \in { <<>>, << "${" >> },
          s \in 0..(Len(BlockStatements) - 1),
          post \in AfterBlock }

\* With them, a label that is in use and a token that starts no statement
VerifyDatabases ==
    RegularDatabases \cup CompressedDatabases \cup ScopeDatabases
    \cup { VerifyBase \o << "ax" >>, VerifyBase \o << "$." >> }

\* The most tokens of a source given to the reader alone
MaxSource == 5

\* The tokens of the sources given to the reader alone
SourceTokens == { "$(", "$)", "$[", "$]", "inc.mm", "wff", "a$(b" }

Sources == SeqUpTo(SourceTokens, MaxSource) \ { <<>> }

\* The most characters of a proof string given to the decoder alone, and the
\* most characters U to Y at the start of one that holds a long number
MaxChars == 4
MaxRun == 7

\* Characters U to Y after which num is size_max / 20, size_max / 5 and one
\* less than size_max / 5
NearLimit ==
    { << "X", "Y", "Y", "Y", "U" >>,
      << "W", "Y", "X", "X", "U", "V" >>,
      << "W", "Y", "X", "X", "U", "U" >> }

\* The proof strings given to the decoder alone
ProofStrings ==
    SeqUpTo({ "A", "B", "T", "U", "Y", "Z" }, MaxChars)
    \cup { run \o rest : run \in SeqUpTo({ "U", "Y" }, MaxRun),
                         rest \in SeqUpTo({ "A", "T", "U", "Y", "Z" }, 1) }
    \cup { run \o rest : run \in NearLimit,
                         rest \in SeqUpTo({ "A", "O", "P", "T", "U", "Y" }, 1) }

(***************************************************************************)
(* run                                                                     *)
(***************************************************************************)

\* No member function is called on its own.
NoCall == [ fn |-> "none" ]

Init ==
    /\ \/ filename = "" /\ text \in Databases \ { <<>> }
       \/ filename \in DiskNames /\ text = <<>>
    /\ pc = "start"
    /\ ret = "none"
    /\ names = {}
    /\ tokens = <<>>
    /\ constants = {}
    /\ variables = {}
    /\ hypotheses = <<>>
    /\ assertions = <<>>
    /\ scopes = <<>>
    /\ log = <<>>
    /\ call = NoCall

\* run up to the loop: readtokens, then the outermost scope
Start ==
    /\ pc = "start"
    /\ LET r == readtokens(App, filename, text)
       IN  /\ names' = r.names
           /\ tokens' = r.tokens
           /\ IF r.okay
              THEN pc' = "loop" /\ ret' = ret
                   /\ scopes' = Append(scopes, Scope)
              ELSE pc' = "done" /\ ret' = EXIT_FAILURE
                   /\ scopes' = scopes
    /\ UNCHANGED << filename, text, constants, variables, hypotheses,
                    assertions, log, call >>

\* The token the loop iteration takes and the object after tokens.pop()
Token == Head(tokens)
Popped == [ App EXCEPT !.tokens = Tail(tokens) ]

\* One loop iteration that called a parser: the object as the parser left
\* it, and failure if the parser failed.
Iteration(stmt, label, r) ==
    /\ names' = r.app.names
    /\ tokens' = r.app.tokens
    /\ constants' = r.app.constants
    /\ variables' = r.app.variables
    /\ hypotheses' = r.app.hypotheses
    /\ assertions' = r.app.assertions
    /\ scopes' = r.app.scopes
    /\ log' = Append(log, [ stmt |-> stmt, label |-> label, okay |-> r.okay,
                            proof |-> r.proof ])
    /\ pc' = IF r.okay THEN "loop" ELSE "done"
    /\ ret' = IF r.okay THEN ret ELSE EXIT_FAILURE
    /\ UNCHANGED << filename, text, call >>

\* The statement a label token starts: the token after the label when
\* parselabel gets as far as reading it.
LabelKind(label) ==
    IF \/ label \in constants \/ label \in variables
       \/ labelused(App, label) \/ Tail(tokens) = <<>>
    THEN "label"
    ELSE tokens[2]

LabelP ==
    /\ pc = "loop" /\ tokens # <<>> /\ islabeltoken(Token)
    /\ LabelKind(Token) = "$p"
    /\ LET r == parselabel(Popped, Token) IN Iteration("$p", Token, r)

LabelE ==
    /\ pc = "loop" /\ tokens # <<>> /\ islabeltoken(Token)
    /\ LabelKind(Token) = "$e"
    /\ LET r == parselabel(Popped, Token) IN Iteration("$e", Token, r)

LabelA ==
    /\ pc = "loop" /\ tokens # <<>> /\ islabeltoken(Token)
    /\ LabelKind(Token) = "$a"
    /\ LET r == parselabel(Popped, Token) IN Iteration("$a", Token, r)

LabelF ==
    /\ pc = "loop" /\ tokens # <<>> /\ islabeltoken(Token)
    /\ LabelKind(Token) = "$f"
    /\ LET r == parselabel(Popped, Token) IN Iteration("$f", Token, r)

\* A label token that parselabel rejects, or that no $p, $e, $a or $f follows
LabelRejected ==
    /\ pc = "loop" /\ tokens # <<>> /\ islabeltoken(Token)
    /\ LabelKind(Token) \notin { "$p", "$e", "$a", "$f" }
    /\ LET r == parselabel(Popped, Token) IN Iteration("label", Token, r)

StatementD ==
    /\ pc = "loop" /\ tokens # <<>> /\ ~islabeltoken(Token)
    /\ Token = "$d"
    /\ LET r == parsed(Popped) IN Iteration("$d", "", r)

OpenScope ==
    /\ pc = "loop" /\ tokens # <<>> /\ ~islabeltoken(Token)
    /\ Token = "${"
    /\ LET r == Result(TRUE, [ Popped EXCEPT !.scopes = Append(@, Scope) ],
                       NoProof)
       IN  Iteration("${", "", r)

\* Fault variant of CloseScope: the hypotheses of the closed block are erased
\* from the table.
CloseScope_erase ==
    /\ pc = "loop" /\ tokens # <<>> /\ ~islabeltoken(Token)
    /\ Token = "$}"
    /\ LET kept == DOMAIN hypotheses \ Range(scopes[Len(scopes)].activehyp)
           r == Result(Len(scopes) > 1,
                       [ Popped EXCEPT
                           !.scopes = SubSeq(@, 1, Len(@) - 1),
                           !.hypotheses = [ l \in kept |-> hypotheses[l] ] ],
                       NoProof)
       IN  Iteration("$}", "", r)

\* Fault variant of CloseScope: what the closed block made active is handed
\* to the scope around it.
CloseScope_merge ==
    /\ pc = "loop" /\ tokens # <<>> /\ ~islabeltoken(Token)
    /\ Token = "$}"
    /\ LET n == Len(scopes)
           merged == [ activevariables |->
                           scopes[n - 1].activevariables
                               \cup scopes[n].activevariables,
                       activehyp |->
                           scopes[n - 1].activehyp \o scopes[n].activehyp,
                       disjvars |->
                           scopes[n - 1].disjvars \o scopes[n].disjvars,
                       floatinghyp |->
                           scopes[n - 1].floatinghyp
                               @@ scopes[n].floatinghyp ]
           r == Result(n > 1,
                       [ Popped EXCEPT
                           !.scopes = IF n > 1
                                      THEN Append(SubSeq(@, 1, n - 2), merged)
                                      ELSE SubSeq(@, 1, n - 1) ],
                       NoProof)
       IN  Iteration("$}", "", r)

\* scopes.pop_back(), and failure if that was the outermost scope
CloseScope ==
    /\ pc = "loop" /\ tokens # <<>> /\ ~islabeltoken(Token)
    /\ Token = "$}"
    /\ LET r == Result(Len(scopes) > 1,
                       [ Popped EXCEPT !.scopes = SubSeq(@, 1, Len(@) - 1) ],
                       NoProof)
       IN  Iteration("$}", "", r)

StatementC ==
    /\ pc = "loop" /\ tokens # <<>> /\ ~islabeltoken(Token)
    /\ Token = "$c"
    /\ LET r == parsec(Popped) IN Iteration("$c", "", r)

StatementV ==
    /\ pc = "loop" /\ tokens # <<>> /\ ~islabeltoken(Token)
    /\ Token = "$v"
    /\ LET r == parsev(Popped) IN Iteration("$v", "", r)

Unexpected ==
    /\ pc = "loop" /\ tokens # <<>> /\ ~islabeltoken(Token)
    /\ Token \notin { "$d", "${", "$}", "$c", "$v" }
    /\ LET r == Result(FALSE, Popped, NoProof)
       IN  Iteration("unexpected", "", r)

\* Fault variant of Finish: open blocks are not looked at.
Finish_unchecked ==
    /\ pc = "loop" /\ tokens = <<>>
    /\ pc' = "done"
    /\ ret' = EXIT_SUCCESS
    /\ UNCHANGED << filename, text, names, tokens, constants, variables,
                    hypotheses, assertions, scopes, log, call >>

\* The FIFO is empty: success unless a block is still open
Finish ==
    /\ pc = "loop" /\ tokens = <<>>
    /\ pc' = "done"
    /\ ret' = IF Len(scopes) > 1 THEN EXIT_FAILURE ELSE EXIT_SUCCESS
    /\ UNCHANGED << filename, text, names, tokens, constants, variables,
                    hypotheses, assertions, scopes, log, call >>

Next ==
    \/ Start
    \/ LabelP
    \/ LabelE
    \/ LabelA
    \/ LabelF
    \/ LabelRejected
    \/ StatementD
    \/ OpenScope
    \/ CloseScope
    \/ StatementC
    \/ StatementV
    \/ Unexpected
    \/ Finish

Spec == Init /\ [][Next]_vars

\* getproofnumbers called on its own
getproofnumbers_call ==
    /\ pc = "call"
    /\ call.fn = "getproofnumbers" /\ ~call.done
    /\ LET n == getproofnumbers(call.proof)
       IN  call' = [ call EXCEPT !.done = TRUE, !.okay = n.okay,
                                 !.error = n.error,
                                 !.proofnumbers = n.proofnumbers,
                                 !.wrapped = n.wrapped ]
    /\ UNCHANGED << filename, text, pc, ret, names, tokens, constants,
                    variables, hypotheses, assertions, scopes, log >>

DecodeInit ==
    /\ filename = ""
    /\ text = <<>>
    /\ pc = "call"
    /\ ret = "none"
    /\ names = {}
    /\ tokens = <<>>
    /\ constants = {}
    /\ variables = {}
    /\ hypotheses = <<>>
    /\ assertions = <<>>
    /\ scopes = <<>>
    /\ log = <<>>
    /\ \E proof \in ProofStrings :
           call = [ fn |-> "getproofnumbers", proof |-> proof,
                    done |-> FALSE, okay |-> FALSE, error |-> "",
                    proofnumbers |-> <<>>, wrapped |-> FALSE ]

DecodeSpec == DecodeInit /\ [][getproofnumbers_call]_vars

\* run on a database that exercises the proof verifier
VerifyInit ==
    /\ filename = ""
    /\ text \in VerifyDatabases
    /\ pc = "start"
    /\ ret = "none"
    /\ names = {}
    /\ tokens = <<>>
    /\ constants = {}
    /\ variables = {}
    /\ hypotheses = <<>>
    /\ assertions = <<>>
    /\ scopes = <<>>
    /\ log = <<>>
    /\ call = NoCall

VerifySpec == VerifyInit /\ [][Next]_vars

\* run up to its loop, on a source of comments and inclusions
ReadInit ==
    /\ \/ filename = "" /\ text \in Sources
       \/ filename \in DiskNames /\ text = <<>>
    /\ pc = "start"
    /\ ret = "none"
    /\ names = {}
    /\ tokens = <<>>
    /\ constants = {}
    /\ variables = {}
    /\ hypotheses = <<>>
    /\ assertions = <<>>
    /\ scopes = <<>>
    /\ log = <<>>
    /\ call = NoCall

ReadSpec == ReadInit /\ [][Start]_vars

(***************************************************************************)
(* readtokens with its calls made visible: one frame per call that has not *)
(* returned, one step per token read                                       *)
(***************************************************************************)

\* The most pieces of a source that includes other sources
MaxIncludes == 2
\* The most calls of readtokens that are followed at the same time
MaxDepth == 4

\* What a source is made of: inclusions of the names on disk and of a name
\* that is not, a token, a comment that holds a "$[", a name with a "$", and
\* an inclusion without its "$]"
IncludePieces ==
    { << "$[", name, "$]" >> : name \in DiskNames \cup { "b.mm" } }
    \cup { << "wff" >>, << "$(", "$[", "$)" >>, << "$[", "a$(b", "$]" >>,
           << "$[", "inc.mm", "wff" >> }

IncludeSources ==
    { Flatten(pieces) : pieces \in SeqUpTo(IncludePieces, MaxIncludes) }

\* Fault variant of alreadyencountered: no name is taken to be in names.
alreadyencountered_never(app, fname) == FALSE

\* names.insert(filename) did not insert: the name was there
alreadyencountered(app, fname) == fname \in app.names

\* The stream readtokens reads for fname: the text it was given, or the file
opened(fname, txt) ==
    IF txt # <<>> THEN [ okay |-> TRUE, in |-> txt ]
    ELSE IF fname \in DOMAIN Files
    THEN [ okay |-> TRUE, in |-> Files[fname] ]
    ELSE [ okay |-> FALSE, in |-> <<>> ]

\* The argument and the locals of a call of readtokens at the start of its
\* loop
Frame(fname, in) ==
    [ filename |-> fname, in |-> in, incomment |-> FALSE,
      infileinclusion |-> FALSE, newfilename |-> "" ]

\* The call that waits for the top frame has its answer: the callers are the
\* frames left. The caller of a call that failed fails in its next step; the
\* caller of a call that succeeded leaves the inclusion mode and goes on
\* with its next token.
ReturnTo(callers, okay) ==
    LET n == Len(callers) IN
    IF n = 0
    THEN call' = [ call EXCEPT !.entered = TRUE, !.frames = <<>>,
                               !.done = TRUE, !.okay = okay ]
    ELSE IF ~okay
    THEN call' = [ call EXCEPT !.entered = TRUE, !.frames = callers,
                               !.failing = TRUE ]
    ELSE call' = [ call EXCEPT
                     !.entered = TRUE,
                     !.frames = [ callers EXCEPT
                                    ![n].in = Tail(@),
                                    ![n].infileinclusion = FALSE,
                                    ![n].newfilename = "" ] ]

\* readtokens(fname, txt) up to its loop, called from the top of callers
EnterCall(fname, txt, callers) ==
    IF alreadyencountered(App, fname)
    THEN names' = names /\ ReturnTo(callers, TRUE)
    ELSE /\ names' = names \cup {fname}
         /\ IF ~opened(fname, txt).okay
            THEN ReturnTo(callers, FALSE)
            ELSE call' = [ call EXCEPT
                             !.entered = TRUE,
                             !.frames = Append(callers,
                                 Frame(fname, opened(fname, txt).in)) ]

TopFrame == call.frames[Len(call.frames)]
Callers == SubSeq(call.frames, 1, Len(call.frames) - 1)

\* The token the top frame reads next is the "$]" that ends an inclusion, or
\* what stands in its place
AtInclusion ==
    /\ ~TopFrame.incomment
    /\ Head(TopFrame.in) # "$("
    /\ TopFrame.infileinclusion
    /\ TopFrame.newfilename # ""

Reading ==
    /\ pc = "call" /\ call.fn = "readtokens"
    /\ call.entered /\ ~call.done /\ ~call.failing
    /\ call.frames # <<>>

\* run calls readtokens(filename, text)
readtokens_call ==
    /\ pc = "call" /\ call.fn = "readtokens" /\ ~call.entered
    /\ EnterCall(filename, text, <<>>)
    /\ UNCHANGED << filename, text, pc, ret, tokens, constants, variables,
                    hypotheses, assertions, scopes, log >>

\* One turn of the while loop that calls nothing
readtokens_turn ==
    /\ Reading
    /\ TopFrame.in # <<>>
    /\ ~AtInclusion
    /\ LET r == readloopbody(App, Head(TopFrame.in), TopFrame.incomment,
                             TopFrame.infileinclusion, TopFrame.newfilename)
           n == Len(call.frames)
       IN  IF r.stop
           THEN /\ tokens' = r.result.tokens
                /\ ReturnTo(Callers, r.result.okay)
           ELSE /\ tokens' = r.app.tokens
                /\ call' = [ call EXCEPT
                               !.frames[n] =
                                   [ filename |-> TopFrame.filename,
                                     in |-> Tail(TopFrame.in),
                                     incomment |-> r.incomment,
                                     infileinclusion |-> r.infileinclusion,
                                     newfilename |-> r.newfilename ] ]
    /\ UNCHANGED << filename, text, pc, ret, names, constants, variables,
                    hypotheses, assertions, scopes, log >>

\* The turn of the while loop at the end of an inclusion: failure if the
\* token is not "$]", else the call readtokens(newfilename)
readtokens_include ==
    /\ Reading
    /\ TopFrame.in # <<>>
    /\ AtInclusion
    /\ Len(call.frames) < MaxDepth
    /\ IF Head(TopFrame.in) # "$]"
       THEN names' = names /\ ReturnTo(Callers, FALSE)
       ELSE EnterCall(TopFrame.newfilename, <<>>, call.frames)
    /\ UNCHANGED << filename, text, pc, ret, tokens, constants, variables,
                    hypotheses, assertions, scopes, log >>

\* The stream of the top frame is at its end: the call returns
readtokens_end ==
    /\ Reading
    /\ TopFrame.in = <<>>
    /\ ReturnTo(Callers,
                readtokensend(App, TopFrame.incomment,
                              TopFrame.infileinclusion).okay)
    /\ UNCHANGED << filename, text, pc, ret, names, tokens, constants,
                    variables, hypotheses, assertions, scopes, log >>

\* The call that the top frame made has failed: it returns false
readtokens_fail ==
    /\ pc = "call" /\ call.fn = "readtokens"
    /\ call.failing /\ ~call.done
    /\ ReturnTo(Callers, FALSE)
    /\ UNCHANGED << filename, text, pc, ret, names, tokens, constants,
                    variables, hypotheses, assertions, scopes, log >>

IncludeNext ==
    \/ readtokens_call
    \/ readtokens_turn
    \/ readtokens_include
    \/ readtokens_end
    \/ readtokens_fail

\* readtokens called on a new object, on a source given as text or on a name
IncludeInit ==
    /\ \/ filename \in { "", "a.mm" } /\ text \in IncludeSources
       \/ filename \in DiskNames /\ text = <<>>
    /\ pc = "call"
    /\ ret = "none"
    /\ names = {}
    /\ tokens = <<>>
    /\ constants = {}
    /\ variables = {}
    /\ hypotheses = <<>>
    /\ assertions = <<>>
    /\ scopes = <<>>
    /\ log = <<>>
    /\ call = [ fn |-> "readtokens", entered |-> FALSE, frames |-> <<>>,
                failing |-> FALSE, done |-> FALSE, okay |-> FALSE ]

\* The program is one thread: a step that can be taken is taken
IncludeSpec ==
    IncludeInit /\ [][IncludeNext]_vars /\ WF_vars(IncludeNext)

\* run on a database of one theorem
ProofInit ==
    /\ filename = "" /\ text \in ProofDatabases
    /\ pc = "start"
    /\ ret = "none"
    /\ names = {}
    /\ tokens = <<>>
    /\ constants = {}
    /\ variables = {}
    /\ hypotheses = <<>>
    /\ assertions = <<>>
    /\ scopes = <<>>
    /\ log = <<>>
    /\ call = NoCall

ProofSpec == ProofInit /\ [][Next]_vars

(***************************************************************************)
(* Notions the properties below are stated in                              *)
(***************************************************************************)

\* The database run reads: its text argument, or the file it is given
Source ==
    IF text # <<>> THEN text
    ELSE IF filename \in DOMAIN Files THEN Files[filename] ELSE <<>>

Last == log[Len(log)]

\* The labels of the active hypotheses, all scopes
ActiveHyps == UNION { Range(scopes[i].activehyp) : i \in 1..Len(scopes) }

\* The proof of log entry i was checked to its last step and left one item on
\* the stack, which is not the theorem
ProvesWrong(i) ==
    /\ log[i].stmt = "$p"
    /\ log[i].proof.ended
    /\ Len(log[i].proof.stack) = 1
    /\ log[i].proof.stack[1] # assertions[log[i].label].expression

(***************************************************************************)
(* Properties                                                              *)
(***************************************************************************)

\* C1: run returns EXIT_SUCCESS only if, for every $p statement whose proof
\* holds no "?", the verification (regular or compressed) ended with exactly
\* one expression on the stack, equal to the theorem's expression.
C1_SuccessOnlyIfEveryProofProvesItsTheorem ==
    (pc = "done" /\ ret = EXIT_SUCCESS) =>
        \A i \in 1..Len(log) :
            (log[i].stmt = "$p" /\ ~log[i].proof.incomplete) =>
                /\ log[i].proof.ended
                /\ log[i].proof.stack =
                       << assertions[log[i].label].expression >>

OneConstantStatement(db) ==
    /\ Len(db) >= 3
    /\ db[1] = "$c"
    /\ db[Len(db)] = "$."
    /\ \A i \in 2..(Len(db) - 1) : ismathsymboltoken(db[i])
    /\ \A i, j \in 2..(Len(db) - 1) : i # j => db[i] # db[j]

\* C3: for a database that is one $c statement at the outermost scope, of
\* one or more pairwise distinct tokens without "$", run returns EXIT_SUCCESS
\* with exactly those tokens in constants, the FIFO empty and one scope.
C3_OneConstantStatementSucceeds ==
    (pc = "done" /\ OneConstantStatement(Source)) =>
        /\ ret = EXIT_SUCCESS
        /\ constants = { Source[i] : i \in 2..(Len(Source) - 1) }
        /\ tokens = <<>>
        /\ Len(scopes) = 1

C3_Witness ==
    /\ pc = "done" /\ OneConstantStatement(Source)
    /\ Cardinality(constants) = 3

\* The number of log entries 1..k that are statement stmt
Count(stmt, k) == Cardinality({ i \in 1..k : log[i].stmt = stmt })

\* C4: run returns EXIT_SUCCESS only if "${" and "$}" are balanced: a "$}"
\* taken with only the outermost scope makes run fail, run fails if more
\* than one scope is left when the FIFO is empty, and on every successful
\* return the FIFO is empty and exactly one scope is left.
C4_SuccessOnlyIfBlocksBalanced ==
    /\ (pc = "done" /\ ret = EXIT_SUCCESS) =>
           /\ tokens = <<>>
           /\ Len(scopes) = 1
           /\ Count("${", Len(log)) = Count("$}", Len(log))
           /\ \A k \in 1..Len(log) : Count("$}", k) <= Count("${", k)
    /\ \A k \in 1..Len(log) :
           (log[k].stmt = "$}" /\ Count("$}", k) > Count("${", k)) =>
               ~log[k].okay /\ k = Len(log) /\ ret = EXIT_FAILURE
    /\ (pc = "done" /\ tokens = <<>> /\ Len(scopes) > 1) =>
           ret = EXIT_FAILURE

C4_Witness ==
    /\ pc = "done" /\ ret = EXIT_SUCCESS
    /\ Count("${", Len(log)) = 1
    /\ Count("$}", Len(log)) = 1

RECURSIVE EndMode(_, _, _)

\* The mode a source leaves the reader in: "normal", "comment", or
\* "inclusion" (after "$[", the filename or the "$]" still to come).
\* mode is the mode before the rest of the source; back is the mode a
\* comment returns to.
EndMode(src, mode, back) ==
    IF src = <<>>
    THEN IF mode \in { "name", "close" } THEN "inclusion" ELSE mode
    ELSE IF mode = "comment"
    THEN EndMode(Tail(src), IF Head(src) = "$)" THEN back ELSE mode, back)
    ELSE IF Head(src) = "$("
    THEN EndMode(Tail(src), "comment", mode)
    ELSE IF mode = "name" THEN EndMode(Tail(src), "close", back)
    ELSE IF mode = "close" THEN EndMode(Tail(src), "normal", back)
    ELSE EndMode(Tail(src), IF Head(src) = "$[" THEN "name" ELSE mode, back)

\* The database, or the file the database starts by including, ends in
\* comment mode or in inclusion mode
EndsInCommentOrInclusion ==
    \/ EndMode(Source, "normal", "normal") # "normal"
    \/ /\ Len(Source) >= 3
       /\ Source[1] = "$[" /\ Source[3] = "$]"
       /\ Source[2] \in DOMAIN Files \ {filename}
       /\ EndMode(Files[Source[2]], "normal", "normal") # "normal"

\* C5: when a source ends in comment mode or in inclusion mode, readtokens
\* fails and run returns EXIT_FAILURE without processing any statement.
C5_UnclosedCommentOrInclusionFails ==
    (pc # "start" /\ EndsInCommentOrInclusion) =>
        /\ pc = "done" /\ ret = EXIT_FAILURE
        /\ log = <<>> /\ scopes = <<>>
        /\ constants = {} /\ variables = {}
        /\ hypotheses = <<>> /\ assertions = <<>>

C5_Witness ==
    /\ pc = "done"
    /\ EndMode(Source, "normal", "normal") = "comment"
    /\ tokens # <<>>

C5_WitnessInclusion ==
    /\ pc = "done"
    /\ EndMode(Source, "normal", "normal") = "inclusion"

\* C6: constants and variables are disjoint, no label of a hypothesis or an
\* assertion is a constant or a variable, and no label is both a hypothesis
\* and an assertion, after every statement in any order and any scope.
C6_NamespacesDisjoint ==
    /\ constants \cap variables = {}
    /\ (DOMAIN hypotheses \cup DOMAIN assertions)
           \cap (constants \cup variables) = {}
    /\ DOMAIN hypotheses \cap DOMAIN assertions = {}

C6_Witness ==
    /\ constants # {} /\ variables # {}
    /\ DOMAIN hypotheses # {} /\ DOMAIN assertions # {}
    /\ Count("$}", Len(log)) = 1
    /\ pc = "done" /\ ret = EXIT_SUCCESS

\* The active floating hypotheses of variable v
ActiveFloating(v) ==
    { l \in ActiveHyps : hypotheses[l].second /\ hypotheses[l].first[2] = v }

\* C7: each active variable has at most one active floating hypothesis across
\* all scopes, and a non-empty getfloatinghyp(v) names a floating hypothesis
\* whose expression is [c, v] with c a constant.
C7_OneFloatingHypPerVariable ==
    \A v \in variables \cup constants \cup
             UNION { DOMAIN scopes[i].floatinghyp : i \in 1..Len(scopes) } :
        /\ Cardinality(ActiveFloating(v)) <= 1
        /\ Cardinality({ i \in 1..Len(scopes) :
                           v \in DOMAIN scopes[i].floatinghyp }) <= 1
        /\ LET l == getfloatinghyp(App, v)
           IN  /\ l # "" =>
                   /\ l \in DOMAIN hypotheses
                   /\ hypotheses[l].second
                   /\ Len(hypotheses[l].first) = 2
                   /\ hypotheses[l].first[1] \in constants
                   /\ hypotheses[l].first[2] = v
                   /\ isactivevariable(App, v)
                   /\ ActiveFloating(v) = {l}
               /\ l = "" => ActiveFloating(v) = {}

\* A $f for a variable whose floating hypothesis is in an outer scope was
\* rejected
C7_Witness ==
    /\ Len(log) > 0 /\ Last.stmt = "$f" /\ ~Last.okay
    /\ Len(scopes) = 2
    /\ tokens # <<>> /\ Head(tokens) = "y"
    /\ "y" \in DOMAIN scopes[1].floatinghyp

\* The tokens after the first of expression exp are constants or variables
\* with an active floating hypothesis
SymbolsActive(exp) ==
    \A k \in 2..Len(exp) :
        \/ exp[k] \in constants
        \/ /\ exp[k] \in variables
           /\ isactivevariable(App, exp[k])
           /\ ActiveFloating(exp[k]) # {}

\* C8: every expression stored in hypotheses or assertions is non-empty and
\* starts with a constant, and when its statement has just been parsed every
\* later token is a constant or a variable with an active floating
\* hypothesis; an expression of only a type code is accepted.
C8_StoredExpressionsWellFormed ==
    /\ \A l \in DOMAIN hypotheses :
           /\ hypotheses[l].first # <<>>
           /\ hypotheses[l].first[1] \in constants
           /\ \A k \in 2..Len(hypotheses[l].first) :
                  hypotheses[l].first[k] \in constants \cup variables
    /\ \A l \in DOMAIN assertions :
           /\ assertions[l].expression # <<>>
           /\ assertions[l].expression[1] \in constants
           /\ \A k \in 2..Len(assertions[l].expression) :
                  assertions[l].expression[k] \in constants \cup variables
    /\ (Len(log) > 0 /\ Last.stmt \in { "$e", "$f" } /\ Last.okay) =>
           /\ Last.label \in DOMAIN hypotheses
           /\ SymbolsActive(hypotheses[Last.label].first)
    /\ (Len(log) > 0 /\ Last.stmt \in { "$a", "$p" }
           /\ (Last.okay \/ Last.label \in DOMAIN assertions)) =>
           /\ Last.label \in DOMAIN assertions
           /\ SymbolsActive(assertions[Last.label].expression)

\* An axiom of only a type code was accepted after an axiom with a variable
C8_Witness ==
    /\ Len(log) > 0 /\ Last.stmt = "$a" /\ Last.okay
    /\ Len(assertions[Last.label].expression) = 1
    /\ \E l \in DOMAIN assertions : Len(assertions[l].expression) > 1

\* The place of hypothesis label l among the statements of the database
DeclaredAt(l) ==
    CHOOSE k \in 1..Len(log) :
        log[k].stmt \in { "$e", "$f" } /\ log[k].label = l /\ log[k].okay

\* C9: in every assertion's mandatory-hypothesis list each label is a key of
\* hypotheses, no label occurs twice, and the labels are in the order in
\* which the hypotheses were declared in the database.
C9_MandatoryHypsInDeclarationOrder ==
    \A a \in DOMAIN assertions :
        LET hyps == assertions[a].hypotheses
        IN  /\ \A i \in 1..Len(hyps) :
                   /\ hyps[i] \in DOMAIN hypotheses
                   /\ \E k \in 1..Len(log) :
                          /\ log[k].stmt \in { "$e", "$f" }
                          /\ log[k].label = hyps[i] /\ log[k].okay
            /\ \A i, j \in 1..Len(hyps) :
                   i < j => /\ hyps[i] # hyps[j]
                            /\ DeclaredAt(hyps[i]) < DeclaredAt(hyps[j])

\* An assertion with three mandatory hypotheses from two scopes
C9_Witness ==
    \E a \in DOMAIN assertions :
        /\ Len(assertions[a].hypotheses) = 3
        /\ Len(scopes) = 2
        /\ assertions[a].hypotheses[1] \in Range(scopes[1].activehyp)
        /\ assertions[a].hypotheses[3] \in Range(scopes[2].activehyp)

\* The active essential hypotheses
ActiveEssential == { l \in ActiveHyps : ~hypotheses[l].second }

\* The mandatory hypotheses of an assertion with expression exp
Mandatory(exp) ==
    ActiveEssential \cup
    { l \in ActiveHyps :
        /\ hypotheses[l].second
        /\ \/ hypotheses[l].first[2] \in Range(exp)
           \/ \E e \in ActiveEssential :
                  hypotheses[l].first[2] \in Range(hypotheses[e].first) }

\* C10: when an assertion is constructed its mandatory-hypothesis list holds
\* exactly the active essential hypotheses and the active floating
\* hypotheses whose variable occurs in the assertion's expression or in an
\* active essential hypothesis.
C10_MandatoryHypsExact ==
    (Len(log) > 0 /\ Last.stmt \in { "$a", "$p" }
        /\ Last.label \in DOMAIN assertions) =>
        Range(assertions[Last.label].hypotheses)
            = Mandatory(assertions[Last.label].expression)

\* An axiom was constructed with a floating hypothesis left out and with one
\* that is needed only by an essential hypothesis
C10_Witness ==
    /\ Len(log) > 0 /\ Last.stmt = "$a" /\ Last.okay
    /\ LET a == assertions[Last.label]
       IN  /\ \E l \in ActiveHyps :
                  hypotheses[l].second /\ l \notin Range(a.hypotheses)
           /\ \E l \in Range(a.hypotheses) :
                  /\ hypotheses[l].second
                  /\ hypotheses[l].first[2] \notin Range(a.expression)
           /\ \E l \in Range(a.hypotheses) : ~hypotheses[l].second

\* The variables an assertion uses: those of its expression and of its
\* mandatory essential hypotheses
UsedVariables(a) ==
    ( Range(a.expression) \cup
      UNION { Range(hypotheses[l].first) :
                l \in { h \in Range(a.hypotheses) : ~hypotheses[h].second } } )
    \cap variables

\* C11: every mandatory disjoint-variable pair of every assertion is two
\* distinct declared variables, both used by the assertion, stored in one
\* orientation only, and when the assertion has just been constructed both
\* are members of one active $d group.
C11_MandatoryDisjointPairs ==
    /\ \A l \in DOMAIN assertions :
           \A p \in assertions[l].disjvars :
               /\ p[1] # p[2]
               /\ p[1] \in variables /\ p[2] \in variables
               /\ p[1] \in UsedVariables(assertions[l])
               /\ p[2] \in UsedVariables(assertions[l])
               /\ << p[2], p[1] >> \notin assertions[l].disjvars
    /\ (Len(log) > 0 /\ Last.stmt \in { "$a", "$p" }
           /\ Last.label \in DOMAIN assertions) =>
           \A p \in assertions[Last.label].disjvars :
               \E i \in 1..Len(scopes) :
                   \E j \in 1..Len(scopes[i].disjvars) :
                       { p[1], p[2] } \subseteq scopes[i].disjvars[j]

\* An axiom was constructed with a disjoint pair, after a $d statement
C11_Witness ==
    /\ Len(log) > 1 /\ Last.stmt = "$a" /\ Last.okay
    /\ assertions[Last.label].disjvars = { << "x", "y" >> }
    /\ \E k \in 1..(Len(log) - 1) : log[k].stmt = "$d" /\ log[k].okay

RECURSIVE After(_, _)
\* The tokens after the first token t of toks (none when t is not there)
After(toks, t) ==
    IF toks = <<>> THEN <<>>
    ELSE IF Head(toks) = t THEN Tail(toks)
    ELSE After(Tail(toks), t)

RECURSIVE Before(_, _)
\* The tokens before the first token t of toks (all when t is not there)
Before(toks, t) ==
    IF toks = <<>> THEN <<>>
    ELSE IF Head(toks) = t THEN <<>>
    ELSE << Head(toks) >> \o Before(Tail(toks), t)

\* The step of run that takes a $p statement and gets as far as its proof;
\* the statement is at the head of tokens, its log entry is Parsed.
Parsed == log'[Len(log')]
TheoremStep ==
    /\ pc = "loop" /\ Len(log') = Len(log) + 1
    /\ Parsed.stmt = "$p" /\ Parsed.proof.form # "none"

\* The statement's label and the tokens after its "$="
Theorem == Head(tokens)
ProofBody == After(tokens, "$=")
IsCompressed == ProofBody # <<>> /\ Head(ProofBody) = "("

\* The labels the proof names: the steps of a regular proof but "?", the
\* label list of a compressed proof
ProofLabels ==
    IF IsCompressed THEN Before(Tail(ProofBody), ")")
    ELSE SelectSeq(Before(ProofBody, "$."), LAMBDA t : t # "?")

\* The tokens of a compressed proof after the ")" of its label list
CompressedBody == After(Tail(ProofBody), ")")

\* Label t passes the validation of the proof's labels
PassesValidation(t) ==
    /\ t # Theorem
    /\ t \in DOMAIN assertions' \/ isactivehyp(App, t)

\* The statement has a regular proof with a "?" step, ended by "$."
IncompleteRegular ==
    /\ ProofBody # <<>> /\ ~IsCompressed
    /\ "$." \in Range(ProofBody)
    /\ "?" \in Range(Before(ProofBody, "$."))
    /\ \A k \in 1..Len(ProofLabels) : PassesValidation(ProofLabels[k])

\* The statement has a compressed proof, ended by "$.", whose string is of
\* upper-case letters and "?" and has a "?"
IncompleteCompressed ==
    /\ IsCompressed
    /\ ")" \in Range(Tail(ProofBody))
    /\ \A k \in 1..Len(ProofLabels) :
           /\ PassesValidation(ProofLabels[k])
           /\ ProofLabels[k] \notin Range(assertions'[Theorem].hypotheses)
    /\ "$." \in Range(CompressedBody)
    /\ LET string == Before(CompressedBody, "$.")
       IN  /\ \A k \in 1..Len(string) : containsonlyupperorq(string[k])
           /\ \E k \in 1..Len(string) : FindChar(string[k], "?")

\* C12: a $p statement whose proof has a "?" (a step of a regular proof, a
\* character of a compressed proof string) and whose labels pass validation
\* is accepted: parsep returns true without running the verifier, the theorem
\* is in assertions, and run goes on with the tokens after the proof's "$.".
C12_IncompleteProofAccepted ==
    [][ (TheoremStep /\ (IncompleteRegular \/ IncompleteCompressed)) =>
            /\ Parsed.okay
            /\ Parsed.proof.incomplete /\ ~Parsed.proof.ran
            /\ Theorem \in DOMAIN assertions'
            /\ pc' = "loop" /\ ret' = ret
            /\ tokens' = IF IsCompressed THEN After(CompressedBody, "$.")
                         ELSE After(ProofBody, "$.") ]_vars

\* run succeeded on a database whose theorem has a compressed proof with "?"
\* and which goes on with an axiom
C12_Witness ==
    /\ pc = "done" /\ ret = EXIT_SUCCESS
    /\ Len(log) > 1 /\ Last.stmt = "$a" /\ Last.okay
    /\ \E k \in 1..(Len(log) - 1) :
           /\ log[k].stmt = "$p" /\ log[k].okay
           /\ log[k].proof.form = "compressed"
           /\ log[k].proof.incomplete /\ ~log[k].proof.ran
           /\ log[k].label \in DOMAIN assertions

C12_WitnessRegular ==
    /\ pc = "done" /\ ret = EXIT_SUCCESS
    /\ Len(log) > 1 /\ Last.stmt = "$a" /\ Last.okay
    /\ \E k \in 1..(Len(log) - 1) :
           /\ log[k].stmt = "$p" /\ log[k].okay
           /\ log[k].proof.form = "regular"
           /\ log[k].proof.incomplete /\ ~log[k].proof.ran
           /\ log[k].label \in DOMAIN assertions

\* C13: every label of a proof is validated before any step is run: when a
\* label is the theorem's own, or is neither an assertion nor an active
\* hypothesis (an hypothesis of a closed block is not active), the statement
\* fails and the verifier is not run.
C13_LabelsValidatedBeforeSteps ==
    [][ (TheoremStep
         /\ \E k \in 1..Len(ProofLabels) : ~PassesValidation(ProofLabels[k]))
        => /\ ~Parsed.okay
           /\ ~Parsed.proof.ran
           /\ pc' = "done" /\ ret' = EXIT_FAILURE ]_vars

\* A regular proof failed, unverified, at the hypothesis of a closed block
\* that follows a valid first step
C13_Witness ==
    /\ Len(log) > 0 /\ Last.stmt = "$p" /\ ~Last.okay
    /\ Last.proof.form = "regular" /\ ~Last.proof.ran
    /\ Before(After(text, "$="), "$.") = << "wx", "e2" >>
    /\ "e2" \in DOMAIN hypotheses /\ ~isactivehyp(App, "e2")

\* Label t is declared by no statement taken so far and by an $a or $p
\* statement that follows the statement at the head of tokens
DeclaredLater(t) ==
    /\ \A k \in 1..Len(log) : log[k].label # t
    /\ \E j \in 2..(Len(tokens) - 1) :
           tokens[j] = t /\ tokens[j + 1] \in { "$a", "$p" }

\* C19: when the proof of a $p statement is validated, assertions holds
\* exactly the $a and $p statements taken before it and the theorem itself; a
\* proof that names the theorem or an assertion declared later fails.
C19_OnlyEarlierAssertions ==
    [][ TheoremStep =>
            /\ DOMAIN assertions =
                   { log[k].label :
                       k \in { i \in 1..Len(log) :
                                 log[i].stmt \in { "$a", "$p" } } }
            /\ DOMAIN assertions' = DOMAIN assertions \cup { Theorem }
            /\ (\E k \in 1..Len(ProofLabels) :
                    \/ ProofLabels[k] = Theorem
                    \/ DeclaredLater(ProofLabels[k]))
               => /\ ~Parsed.okay /\ ~Parsed.proof.ran
                  /\ pc' = "done" /\ ret' = EXIT_FAILURE ]_vars

\* A proof failed at the label of the axiom that follows the theorem
C19_Witness ==
    /\ Len(log) > 0 /\ Last.stmt = "$p" /\ ~Last.okay /\ ~Last.proof.ran
    /\ Before(After(text, "$="), "$.") = << "wx", "a2" >>
    /\ DOMAIN assertions = { "ax", "th" }
    /\ \E j \in 1..(Len(tokens) - 1) : tokens[j] = "a2" /\ tokens[j + 1] = "$a"

\* C18: constants, variables, hypotheses and assertions only grow: no step
\* of run (a statement, the closing of a scope) removes or changes an entry,
\* so an assertion's expression, mandatory hypotheses and disjoint pairs stay
\* as constructassertion left them.
C18_TablesOnlyGrow ==
    [][ /\ constants \subseteq constants'
        /\ variables \subseteq variables'
        /\ \A l \in DOMAIN hypotheses :
               l \in DOMAIN hypotheses' /\ hypotheses'[l] = hypotheses[l]
        /\ \A l \in DOMAIN assertions :
               l \in DOMAIN assertions' /\ assertions'[l] = assertions[l]
      ]_vars

\* A block with a hypothesis was closed, and an assertion made in it is kept
C18_Witness ==
    /\ Len(log) > 1 /\ Last.stmt = "$}" /\ Last.okay
    /\ \E l \in DOMAIN hypotheses : ~isactivehyp(App, l)
    /\ \E k \in 1..(Len(log) - 1) :
           /\ log[k].stmt = "$a" /\ log[k].okay
           /\ log[k].label \in DOMAIN assertions
           /\ \E h \in Range(assertions[log[k].label].hypotheses) :
                  ~isactivehyp(App, h)

\* readtokens on a new object: source txt under the name run was given
Read(txt) ==
    readtokens([ App EXCEPT !.names = {}, !.tokens = <<>> ], filename, txt)

\* The directive that includes file name
Include(name) == << "$[", name, "$]" >>

\* C14: each source name is processed at most once: a "$[ name $]" for a
\* name already in names (the top-level source's own name too) succeeds and
\* adds no token, and including a name twice gives the FIFO of including it
\* once.
C14_IncludeOnce ==
    pc = "loop" =>
        /\ \A name \in names :
               readtokens(App, name, <<>>) =
                   [ okay |-> TRUE, names |-> names, tokens |-> tokens ]
        /\ \A name \in names \ { "" } :
               LET again == Read(Source \o Include(name))
               IN  again.okay /\ again.tokens = tokens /\ again.names = names
        /\ \A name \in DiskNames :
               Read(Source \o Include(name) \o Include(name))
                   = Read(Source \o Include(name))

\* A file that includes itself, and files that include each other, were read
C14_Witness ==
    /\ pc = "loop" /\ filename = "a.mm"
    /\ names = { "a.mm", "b.mm" }
    /\ tokens = << "$c", "|-", "$.", "$c", "wff", "$." >>

RECURSIVE Strip(_, _)
\* The source without its "$( ... $)" spans; incomment: src starts in one
Strip(src, incomment) ==
    IF src = <<>> THEN <<>>
    ELSE IF incomment THEN Strip(Tail(src), Head(src) # "$)")
    ELSE IF Head(src) = "$(" THEN Strip(Tail(src), TRUE)
    ELSE << Head(src) >> \o Strip(Tail(src), FALSE)

RECURSIVE CommentsClosed(_, _)
\* Every comment of the source is closed and no token inside a comment
\* contains "$(" or "$)"
CommentsClosed(src, incomment) ==
    IF src = <<>> THEN ~incomment
    ELSE IF incomment
    THEN IF Head(src) = "$)" THEN CommentsClosed(Tail(src), FALSE)
         ELSE /\ ~FindTwo(Head(src), "$", "(")
              /\ ~FindTwo(Head(src), "$", ")")
              /\ CommentsClosed(Tail(src), TRUE)
    ELSE CommentsClosed(Tail(src), Head(src) = "$(")

C15_WitnessAfterName ==
    /\ pc = "loop"
    /\ text = << "$[", "inc.mm", "$(", "$)", "$]" >>
    /\ tokens = << "$c", "wff", "$." >>

\* The proof string of a finished getproofnumbers call, and what it returned
Decoded == call.fn = "getproofnumbers" /\ call.done

\* C16 as stated: decoding the proof string "UA" gives exactly the number
\* list [26].
C16_DecodeUA ==
    (Decoded /\ call.proof = << "U", "A" >>) =>
        call.okay /\ call.proofnumbers = << 26 >>

\* C16, amended: decoding the proof string "UA" gives exactly the number list
\* [21], which is 20 * 1 + 1: U sets num to 1 and A emits 20 * num + 1.
C16_DecodeUA21 ==
    (Decoded /\ call.proof = << "U", "A" >>) =>
        call.okay /\ call.proofnumbers = << 21 >>

C16_Witness ==
    /\ Decoded /\ call.okay
    /\ call.proof = << "U", "A" >> /\ Len(call.proofnumbers) = 1

\* The characters that end a number, in the order of their values 1 to 20, and
\* the characters that continue one, in the order of their values 1 to 5
NumberEnds ==
    << "A", "B", "C", "D", "E", "F", "G", "H", "I", "J",
       "K", "L", "M", "N", "O", "P", "Q", "R", "S", "T" >>

NumberParts == << "U", "V", "W", "X", "Y" >>

ValueIn(chars, ch) == CHOOSE v \in 1..Len(chars) : chars[v] = ch

\* A "Z" that is first, or whose left neighbour is not one of A to T
StrayZ(proof) ==
    \E i \in 1..Len(proof) :
        /\ proof[i] = "Z"
        /\ i = 1 \/ proof[i - 1] \notin Range(NumberEnds)

Occurrences(seq, x) == Cardinality({ i \in 1..Len(seq) : seq[i] = x })

\* C17: a "Z" is accepted only directly after one of A to T, and gives a 0; a
\* "Z" that is first, or after one of U to Y, or after a "Z", makes the
\* decoding fail ("YZ" fails, "AZ" gives [1, 0]); so a decoded list never
\* starts with 0 and never has two 0s in a row.
C17_StrayZ ==
    Decoded =>
        /\ StrayZ(call.proof) => ~call.okay
        /\ call.proof = << "Y", "Z" >> => ~call.okay
        /\ call.proof = << "A", "Z" >> =>
               call.okay /\ call.proofnumbers = << 1, 0 >>
        /\ call.okay =>
               LET out == call.proofnumbers
               IN  /\ Occurrences(out, 0) = Occurrences(call.proof, "Z")
                   /\ out # <<>> => out[1] # 0
                   /\ \A i \in 1..(Len(out) - 1) :
                          ~(out[i] = 0 /\ out[i + 1] = 0)

C17_Witness ==
    /\ Decoded /\ call.okay
    /\ call.proof = << "A", "Z", "B", "Z" >>
    /\ call.proofnumbers = << 1, 0, 2, 0 >>

C17_WitnessStray ==
    Decoded /\ call.proof = << "A", "Z", "Z" >> /\ ~call.okay

\* Where the characters U to Y that lead up to position i start
RunStart(proof, i) ==
    CHOOSE j \in 1..i :
        /\ \A k \in j..(i - 1) : proof[k] \in Range(NumberParts)
        /\ j = 1 \/ proof[j - 1] \notin Range(NumberParts)

RECURSIVE BaseFive(_, _, _)
\* num after the characters U to Y at positions j to i - 1
BaseFive(proof, j, i) ==
    IF i <= j THEN 0
    ELSE 5 * BaseFive(proof, j, i - 1) + ValueIn(NumberParts, proof[i - 1])

\* num just before position i
NumAt(proof, i) == BaseFive(proof, RunStart(proof, i), i)

\* What the character at position i gives: an emission, or the next num
Made(proof, i) ==
    IF proof[i] = "Z" THEN 0
    ELSE IF proof[i] \in Range(NumberParts)
    THEN 5 * NumAt(proof, i) + ValueIn(NumberParts, proof[i])
    ELSE 20 * NumAt(proof, i) + ValueIn(NumberEnds, proof[i])

\* The emissions of the reference decoding, in order
Emissions(proof) ==
    LET at == SelectSeq([ i \in 1..Len(proof) |-> i ],
                        LAMBDA i : proof[i] \notin Range(NumberParts))
    IN  [ k \in 1..Len(at) |-> Made(proof, at[k]) ]

\* The string ends with num different from 0
Unfinished(proof) == NumAt(proof, Len(proof) + 1) # 0

\* Some 20*num + value or 5*num + value is more than a size_t holds
TooLarge(proof) == \E i \in 1..Len(proof) : Made(proof, i) > size_max

\* C20 as stated: getproofnumbers computes the reference decoding (each A-T
\* emits 20*num + value and resets num, each U-Y sets num to 5*num + value,
\* each accepted Z emits 0), and fails if the string ends with num not 0.
C20_ReferenceDecoding ==
    Decoded =>
        /\ Unfinished(call.proof) => ~call.okay
        /\ (~StrayZ(call.proof) /\ ~Unfinished(call.proof)) =>
               call.okay /\ call.proofnumbers = Emissions(call.proof)

\* C20, amended: getproofnumbers computes the reference decoding, and fails
\* if the string ends with num not 0 or if a 20*num + value or 5*num + value
\* would be more than the largest size_t.
C20_ReferenceDecodingInRange ==
    Decoded =>
        /\ call.okay => call.proofnumbers = Emissions(call.proof)
        /\ (Unfinished(call.proof) \/ TooLarge(call.proof)) => ~call.okay
        /\ ( /\ ~StrayZ(call.proof)
             /\ ~Unfinished(call.proof)
             /\ ~TooLarge(call.proof) ) => call.okay

\* A number that is too large stopped a decoding that nothing else stops
C20_Witness ==
    /\ Decoded /\ ~call.okay
    /\ TooLarge(call.proof)
    /\ ~StrayZ(call.proof) /\ ~Unfinished(call.proof)

\* A number of several characters was decoded
C20_WitnessDecoded ==
    /\ Decoded /\ call.okay
    /\ call.proof = << "U", "Y", "B", "T" >>
    /\ call.proofnumbers = << 20 * (5 * 1 + 5) + 2, 20 >>

\* The decoding reaches position i: no stray "Z" and no number that is too
\* large before it
Reaches(proof, i) ==
    /\ ~StrayZ(SubSeq(proof, 1, i - 1))
    /\ \A k \in 1..(i - 1) : Made(proof, k) <= size_max

\* C21: getproofnumbers never emits or stores a wrapped value: it fails with
\* the overflow error exactly when 20*num + addval (A-T) or 5*num + addval
\* (U-Y) would be more than the largest size_t, every number it emitted is the
\* reference emission, and no operand of the test leaves the range of size_t.
C21_NoWrappedValue ==
    Decoded =>
        /\ ~call.wrapped
        /\ Len(call.proofnumbers) <= Len(Emissions(call.proof))
        /\ \A k \in 1..Len(call.proofnumbers) :
               /\ call.proofnumbers[k] = Emissions(call.proof)[k]
               /\ call.proofnumbers[k] <= size_max
        /\ call.error = "Overflow" <=>
               \E i \in 1..Len(call.proof) :
                   /\ Reaches(call.proof, i)
                   /\ call.proof[i] # "Z"
                   /\ Made(call.proof, i) > size_max

\* A character A to T stopped the decoding though 20*num fits
C21_Witness ==
    /\ Decoded /\ call.error = "Overflow"
    /\ call.proof[Len(call.proof)] \in Range(NumberEnds)
    /\ 20 * NumAt(call.proof, Len(call.proof)) <= size_max

\* A character U to Y stopped the decoding though 5*num fits
C21_WitnessNumberPart ==
    /\ Decoded /\ call.error = "Overflow"
    /\ call.proof[Len(call.proof)] \in Range(NumberParts)
    /\ 5 * NumAt(call.proof, Len(call.proof)) <= size_max

\* The largest size_t was emitted
C21_WitnessLargest ==
    Decoded /\ call.okay /\ call.proofnumbers = << size_max >>

(***************************************************************************)
(* The steps of the proof of the last statement, read off the source text  *)
(* (the databases of VerifySpec have one "$=")                             *)
(***************************************************************************)

\* The verifier ran on the proof of the statement parsed last
Verified == log # <<>> /\ Last.stmt = "$p" /\ Last.proof.ran

ProofStart == CHOOSE i \in 1..Len(text) : text[i] = "$="

ProofEnd ==
    LET start == ProofStart
    IN  CHOOSE i \in (start + 1)..Len(text) :
            /\ text[i] = "$."
            /\ \A k \in (start + 1)..(i - 1) : text[k] # "$."

WrittenProof == SubSeq(text, ProofStart + 1, ProofEnd - 1)

\* The assertion made for the theorem
Proved == assertions[Last.label]

\* The label list of a compressed proof, and the numbers of its characters
ListEnd ==
    LET proof == WrittenProof
    IN  CHOOSE i \in 1..Len(proof) : proof[i] = ")"

ListedLabels ==
    LET proof == WrittenProof
    IN  SubSeq(proof, 2, (CHOOSE i \in 1..Len(proof) : proof[i] = ")") - 1)

WrittenNumbers ==
    LET proof == WrittenProof
        end == CHOOSE i \in 1..Len(proof) : proof[i] = ")"
    IN  getproofnumbers(Flatten([ i \in 1..(Len(proof) - end) |->
                                    Chars(proof[end + i]) ])).proofnumbers

\* The number of steps: labels of a regular proof, numbers of a compressed one
StepCount ==
    IF Last.proof.form = "regular" THEN Len(WrittenProof)
    ELSE Len(WrittenNumbers)

\* The verifier on the first n steps alone: ended tells that no step failed,
\* stack is the stack they leave
FirstSteps(n) ==
    IF Last.proof.form = "regular"
    THEN regularsteps(App, Proved, SubSeq(WrittenProof, 1, n), <<>>)
    ELSE compressedsteps(App, Proved, ListedLabels,
                         SubSeq(WrittenNumbers, 1, n), <<>>, <<>>)

\* The steps the verifier gets to: step n + 1 after n steps that passed
StepsTaken == { n \in 0..(StepCount - 1) : FirstSteps(n).ended }

\* The label step n + 1 names; "" when it is a 0 or a saved step
StepLabel(n) ==
    IF Last.proof.form = "regular" THEN WrittenProof[n + 1]
    ELSE LET k == WrittenNumbers[n + 1]
             mandhypt == Len(Proved.hypotheses)
         IN  IF k = 0 THEN ""
             ELSE IF k <= mandhypt THEN Proved.hypotheses[k]
             ELSE IF k <= mandhypt + Len(ListedLabels)
             THEN ListedLabels[k - mandhypt]
             ELSE ""

\* The assertion references of the proof: the label and the stack before
References ==
    { [ label |-> StepLabel(n), stack |-> FirstSteps(n).stack ] :
          n \in { m \in StepsTaken : StepLabel(m) \in DOMAIN assertions } }

\* What the verifier did is what the steps read off the text do
ReadOff ==
    /\ FirstSteps(StepCount).stack = Last.proof.stack
    /\ FirstSteps(StepCount).ended = Last.proof.ended
    /\ \A n \in StepsTaken :
           StepLabel(n) \in DOMAIN assertions =>
               LET v == verifyassertionref(App, StepLabel(n),
                                           FirstSteps(n).stack)
               IN  /\ FirstSteps(n + 1).ended = v.okay
                   /\ FirstSteps(n + 1).stack = v.stack

\* C25: verifyassertionref on an assertion with h mandatory hypotheses fails
\* if the stack holds fewer than h expressions; when it succeeds the stack has
\* its old size minus h plus 1 and the expressions below the top h are
\* unchanged.
C25_StackEffect ==
    Verified =>
        /\ ReadOff
        /\ \A r \in References :
               LET h == Len(assertions[r.label].hypotheses)
                   v == verifyassertionref(App, r.label, r.stack)
                   below == Len(r.stack) - h
               IN  /\ Len(r.stack) < h => ~v.okay
                   /\ v.okay =>
                          /\ Len(v.stack) = Len(r.stack) - h + 1
                          /\ SubSeq(v.stack, 1, below)
                                 = SubSeq(r.stack, 1, below)

\* A reference succeeded above an expression that stays on the stack
C25_Witness ==
    /\ Verified
    /\ \E r \in References :
           /\ Len(r.stack) > Len(assertions[r.label].hypotheses)
           /\ verifyassertionref(App, r.label, r.stack).okay

\* A reference found too few expressions on a stack that is not empty
C25_WitnessTooFew ==
    /\ Verified
    /\ \E r \in References :
           /\ r.stack # <<>>
           /\ Len(r.stack) < Len(assertions[r.label].hypotheses)

\* The substitution map verifyassertionref makes for reference r
Substitutions(r) ==
    unify(App, assertions[r.label], r.stack, 1, <<>>).substitutions

\* C23: whenever verifyassertionref succeeds for an assertion R with mandatory
\* hypotheses H against the top stack slots S, the substitution map applied
\* to the expression of each H[i] gives exactly S[i], and the expression
\* pushed is the map applied to R's expression.
C23_UnificationSound ==
    Verified =>
        \A r \in References :
            LET R == assertions[r.label]
                h == Len(R.hypotheses)
                base == Len(r.stack) - h
                v == verifyassertionref(App, r.label, r.stack)
            IN  v.okay =>
                    /\ \A i \in 1..h :
                           makesubstitution(hypotheses[R.hypotheses[i]].first,
                                            Substitutions(r))
                               = r.stack[base + i]
                    /\ v.stack[Len(v.stack)]
                           = makesubstitution(R.expression, Substitutions(r))

\* A reference to an assertion with an essential hypothesis succeeded with a
\* variable replaced by another one
C23_Witness ==
    /\ Verified
    /\ \E r \in References :
           /\ verifyassertionref(App, r.label, r.stack).okay
           /\ \E l \in Range(assertions[r.label].hypotheses) :
                  ~hypotheses[l].second
           /\ \E var \in DOMAIN Substitutions(r) :
                  Substitutions(r)[var] # << var >>

\* The references whose stack has enough entries and unifies with the
\* hypotheses of the assertion: the ones that reach the disjointness check
Unified ==
    { r \in References :
        /\ Len(r.stack) >= Len(assertions[r.label].hypotheses)
        /\ unify(App, assertions[r.label], r.stack, 1, <<>>).okay }

\* The variables that occur in an expression
VarsIn(exp) == { exp[i] : i \in 1..Len(exp) } \cap variables

\* The cross pairs of reference r: a variable of subst(v1) and a variable of
\* subst(v2), for a mandatory disjoint pair (v1, v2) of the assertion
CrossPairs(r) ==
    UNION { VarsIn(Substitutions(r)[pair[1]])
                \X VarsIn(Substitutions(r)[pair[2]]) :
            pair \in assertions[r.label].disjvars }

\* a and b are together in a $d group of a scope that is open
Together(a, b) ==
    \E i \in 1..Len(scopes) :
        \E j \in 1..Len(scopes[i].disjvars) :
            { a, b } \subseteq scopes[i].disjvars[j]

\* C24: verifyassertionref fails whenever a cross pair (a, b) of the
\* referenced assertion has a = b or a and b not together in an active $d
\* group; the step succeeds only if isdvr(a, b) holds for every cross pair.
C24_DisjointnessChecked ==
    Verified =>
        \A r \in Unified :
            LET v == verifyassertionref(App, r.label, r.stack)
            IN  /\ ( \E c \in CrossPairs(r) :
                         c[1] = c[2] \/ ~Together(c[1], c[2]) ) => ~v.okay
                /\ v.okay => \A c \in CrossPairs(r) : isdvr(App, c[1], c[2])

\* A reference failed because the same variable is on both sides of a cross
\* pair, inside a block whose $d group holds the pair's own variables
C24_Witness ==
    /\ Verified
    /\ \E r \in Unified :
           /\ ~verifyassertionref(App, r.label, r.stack).okay
           /\ \E c \in CrossPairs(r) : c[1] = c[2]
           /\ \A pair \in assertions[r.label].disjvars :
                  Together(pair[1], pair[2])

\* A reference failed because two distinct variables are in no active group
C24_WitnessNoGroup ==
    /\ Verified
    /\ \E r \in Unified :
           /\ ~verifyassertionref(App, r.label, r.stack).okay
           /\ \E c \in CrossPairs(r) :
                  c[1] # c[2] /\ ~Together(c[1], c[2])

\* A reference with a cross pair succeeded
C24_WitnessPassed ==
    /\ Verified
    /\ \E r \in Unified :
           /\ verifyassertionref(App, r.label, r.stack).okay
           /\ CrossPairs(r) # {}

\* The proof of the last statement was compressed and its numbers were run
Compressed == Verified /\ Last.proof.form = "compressed"

\* The places of the 0s among the first n numbers, and the saved-steps list
\* after the first n numbers when none of them failed: the stack tops the 0s
\* met, in order
Zeros(n) == { m \in 1..n : WrittenNumbers[m] = 0 }

Saved(n) ==
    [ j \in 1..Cardinality(Zeros(n)) |->
        LET m == CHOOSE z \in Zeros(n) :
                     Cardinality({ y \in Zeros(n) : y <= z }) = j
            before == FirstSteps(m - 1).stack
        IN  IF before = <<>> THEN <<>> ELSE before[Len(before)] ]

\* C22: with M mandatory hypotheses, N listed labels and the saved steps as
\* they stand when the number k is processed: 1 <= k <= M pushes the
\* expression of mandatory hypothesis k; M < k <= M+N applies label k-M (a
\* push if it is a hypothesis, an assertion reference otherwise);
\* M+N < k <= M+N+|saved| pushes saved step k-M-N; a larger k fails, also
\* when a later 0 would have saved the step.
C22_NumberRanges ==
    Compressed =>
        \A n \in StepsTaken :
            LET k == WrittenNumbers[n + 1]
                M == Len(Proved.hypotheses)
                N == Len(ListedLabels)
                before == FirstSteps(n)
                after == FirstSteps(n + 1)
                pushed(exp) == /\ after.ended
                               /\ after.stack = Append(before.stack, exp)
            IN  /\ (1 <= k /\ k <= M) =>
                       pushed(hypotheses[Proved.hypotheses[k]].first)
                /\ (M < k /\ k <= M + N) =>
                       LET l == ListedLabels[k - M]
                           v == verifyassertionref(App, l, before.stack)
                       IN  IF l \in DOMAIN hypotheses
                           THEN pushed(hypotheses[l].first)
                           ELSE /\ after.ended = v.okay
                                /\ after.stack = v.stack
                /\ (M + N < k /\ k <= M + N + Len(Saved(n))) =>
                       pushed(Saved(n)[k - M - N])
                /\ k > M + N + Len(Saved(n)) =>
                       /\ ~after.ended
                       /\ ~after.okay
                       /\ n + 1 = StepCount =>
                              ~Last.okay /\ ~Last.proof.okay

\* A number failed as too high although a 0 after it saves a step
C22_Witness ==
    /\ Compressed
    /\ \E n \in StepsTaken :
           LET k == WrittenNumbers[n + 1]
               top == Len(Proved.hypotheses) + Len(ListedLabels)
           IN  /\ k > top + Len(Saved(n))
               /\ k <= top + Len(Saved(StepCount))
               /\ ~FirstSteps(n + 1).ended

\* A saved step was pushed
C22_WitnessSaved ==
    /\ Compressed
    /\ \E n \in StepsTaken :
           LET k == WrittenNumbers[n + 1]
               top == Len(Proved.hypotheses) + Len(ListedLabels)
           IN  /\ k > top
               /\ k <= top + Len(Saved(n))
               /\ FirstSteps(n + 1).ended

\* A listed label that is an assertion was applied and the step passed
C22_WitnessLabel ==
    /\ Compressed
    /\ \E n \in StepsTaken :
           LET k == WrittenNumbers[n + 1]
               M == Len(Proved.hypotheses)
           IN  /\ M < k /\ k <= M + Len(ListedLabels)
               /\ ListedLabels[k - M] \in DOMAIN assertions
               /\ FirstSteps(n + 1).ended

\* The last mandatory hypothesis of two was pushed
C22_WitnessMandatory ==
    /\ Compressed
    /\ \E n \in StepsTaken :
           /\ WrittenNumbers[n + 1] = Len(Proved.hypotheses)
           /\ Len(Proved.hypotheses) = 2

\* The numbers after the first n + 1, replaced by the one number that names
\* the newest saved step
NewestSaved(n) ==
    compressedsteps(App, Proved, ListedLabels,
        Append(SubSeq(WrittenNumbers, 1, n + 1),
               Len(Proved.hypotheses) + Len(ListedLabels)
                   + Cardinality(Zeros(n + 1))),
        <<>>, <<>>)

\* C28: a 0 in a compressed proof leaves the stack as it is and saves a copy
\* of its top (a number naming the newest saved step pushes that copy), and
\* the stack is not empty when a 0 is processed: the decoder gives a 0 only
\* right after a number that is not 0, and every number other than 0 that is
\* processed successfully leaves an expression on the stack.
C28_SaveStep ==
    Compressed =>
        /\ \A i \in 1..Len(WrittenNumbers) :
               WrittenNumbers[i] = 0 => i > 1 /\ WrittenNumbers[i - 1] # 0
        /\ \A n \in StepsTaken :
               LET before == FirstSteps(n)
                   after == FirstSteps(n + 1)
               IN  IF WrittenNumbers[n + 1] = 0
                   THEN /\ before.stack # <<>>
                        /\ after.ended
                        /\ ~after.ub
                        /\ after.stack = before.stack
                        /\ NewestSaved(n).ended
                        /\ NewestSaved(n).stack
                               = Append(before.stack,
                                        before.stack[Len(before.stack)])
                   ELSE after.ended => after.stack # <<>>

\* A 0 was processed with two expressions on the stack
C28_Witness ==
    /\ Compressed
    /\ \E n \in StepsTaken :
           /\ WrittenNumbers[n + 1] = 0
           /\ Len(FirstSteps(n).stack) = 2

\* A 0 was processed right after an assertion reference
C28_WitnessAfterReference ==
    /\ Compressed
    /\ \E n \in StepsTaken :
           /\ n > 0
           /\ WrittenNumbers[n + 1] = 0
           /\ (n - 1) \in StepsTaken
           /\ StepLabel(n - 1) \in DOMAIN assertions

\* The scopes whose floating-hyp map contains var, counted from the outermost
ScopesWith(var) ==
    { i \in 1..Len(scopes) : var \in DOMAIN scopes[i].floatinghyp }

\* C26: in every state the statement parsers lead to, getfloatinghyp(var) is
\* the label found in the innermost scope whose floating-hyp map contains
\* var, or the empty string if no scope's map contains it.
C26_InnermostFloatingHyp ==
    \A var \in variables \cup constants \cup { "ax", "?" } :
        getfloatinghyp(App, var) =
            IF ScopesWith(var) = {} THEN ""
            ELSE LET innermost == CHOOSE i \in ScopesWith(var) :
                                      \A j \in ScopesWith(var) : j <= i
                 IN  scopes[innermost].floatinghyp[var]

\* One variable has its floating hypothesis in the outermost scope and
\* another one in the block inside it, and a third symbol has none
C26_Witness ==
    /\ Len(scopes) = 2
    /\ \E v1 \in variables : ScopesWith(v1) = {1}
    /\ \E v2 \in variables : ScopesWith(v2) = {2}
    /\ \E c \in constants : ScopesWith(c) = {}

\* The next token closes a block
Closing ==
    pc = "loop" /\ tokens # <<>> /\ Head(tokens) = "$}" /\ Len(scopes) > 1

\* The object with the statement stmt as its FIFO
With(app, stmt) == [ app EXCEPT !.tokens = stmt ]

\* a and b are together in a $d group of one of the first n scopes
TogetherIn(n, a, b) ==
    \E i \in 1..n :
        \E j \in 1..Len(scopes[i].disjvars) :
            { a, b } \subseteq scopes[i].disjvars[j]

\* The mandatory hypotheses of an assertion made in app for expression exp
MandatoryFor(app, exp) ==
    Range(constructassertion(app, "new", exp)["new"].hypotheses)

\* C27: after "$}" closes a block, what the block added is no longer active.
\* A variable of the block is not active, "$v" declares it again and a "$f"
\* after that gives it a floating hypothesis; a variable that got its
\* floating hypothesis in the block has none and "$f" gives it one; a
\* hypothesis of the block is not active, a proof that names it is refused
\* before any step is taken (the same proof was run before the "$}"), and it
\* is mandatory for no new assertion; two variables are disjoint only by a
\* $d group of an outer scope. The outer scopes are as they were.
C27_BlockClosed ==
    [][ Closing =>
          LET n == Len(scopes)
              closed == scopes[n]
          IN  /\ Len(scopes') = n - 1
              /\ \A i \in 1..(n - 1) : scopes'[i] = scopes[i]
              /\ \A v \in closed.activevariables :
                     LET dv == parsev(With(App', << v, "$." >>))
                     IN  /\ ~isactivevariable(App', v)
                         /\ dv.okay
                         /\ \A c \in constants :
                                parsef(With(dv.app, << c, v, "$." >>),
                                       "new").okay
              /\ \A v \in DOMAIN closed.floatinghyp :
                     /\ getfloatinghyp(App', v) = ""
                     /\ isactivevariable(App', v) =>
                            \A c \in constants :
                                parsef(With(App', << c, v, "$." >>),
                                       "new").okay
              /\ \A l \in Range(closed.activehyp) :
                     /\ ~isactivehyp(App', l)
                     /\ \A c \in constants :
                            LET stmt == << c, "$=", l, "$." >>
                                before == parsep(With(App, stmt), "new")
                                after == parsep(With(App', stmt), "new")
                            IN  /\ before.proof.ran
                                /\ ~after.okay
                                /\ ~after.proof.ran
                     /\ \A h \in DOMAIN hypotheses :
                            /\ l \notin MandatoryFor(App', hypotheses[h].first)
                            /\ ~hypotheses[l].second =>
                                   l \in MandatoryFor(App, hypotheses[h].first)
              /\ \A a \in variables : \A b \in variables :
                     isdvr(App', a, b) <=> a # b /\ TogetherIn(n - 1, a, b)
              /\ \A v \in variables :
                     /\ isactivevariable(App', v) <=>
                            \E i \in 1..(n - 1) :
                                v \in scopes[i].activevariables
                     /\ getfloatinghyp(App', v) # "" <=>
                            \E i \in 1..(n - 1) :
                                v \in DOMAIN scopes[i].floatinghyp
              /\ \A l \in DOMAIN hypotheses :
                     isactivehyp(App', l) <=>
                         \E i \in 1..(n - 1) : l \in Range(scopes[i].activehyp)
      ]_vars

\* A block in a block was closed: it had declared a variable and given it a
\* floating hypothesis, and had a $d and an essential hypothesis, and the
\* block around it has an active variable with a floating hypothesis
C27_Witness ==
    /\ Len(log) > 1 /\ Last.stmt = "$}" /\ Last.okay
    /\ Len(scopes) = 2
    /\ \E v \in variables :
           /\ ~isactivevariable(App, v)
           /\ \E l \in DOMAIN hypotheses :
                  hypotheses[l].second /\ hypotheses[l].first[2] = v
    /\ \E v \in variables :
           isactivevariable(App, v) /\ getfloatinghyp(App, v) # ""
    /\ \E l \in DOMAIN hypotheses :
           ~hypotheses[l].second /\ ~isactivehyp(App, l)
    /\ \E k \in 1..Len(log) : log[k].stmt = "$d" /\ log[k].okay
    /\ \A i \in 1..Len(scopes) : scopes[i].disjvars = <<>>

\* After the block a variable of it was declared again and given a new
\* floating hypothesis
C27_WitnessAgain ==
    /\ Len(log) > 3 /\ Last.stmt = "$f" /\ Last.okay
    /\ log[Len(log) - 1].stmt = "$v" /\ log[Len(log) - 1].okay
    /\ log[Len(log) - 2].stmt = "$}" /\ log[Len(log) - 2].okay
    /\ Cardinality({ l \in DOMAIN hypotheses :
                       hypotheses[l].second /\ hypotheses[l].first[2] = "y" })
           = 2

\* After the block a proof that names a hypothesis of it was refused
C27_WitnessRefused ==
    /\ Len(log) > 1 /\ Last.stmt = "$p" /\ ~Last.okay /\ ~Last.proof.ran
    /\ log[Len(log) - 1].stmt = "$}" /\ log[Len(log) - 1].okay
    /\ "e1" \in DOMAIN hypotheses /\ ~isactivehyp(App, "e1")

\* Every expression of the list is non-empty and begins with a constant
TypedExpressions(list) ==
    \A i \in 1..Len(list) : list[i] # <<>> /\ list[i][1] \in constants

\* C30: at every step of a regular or compressed proof every expression on
\* the stack and in saved-steps is non-empty and begins with a constant, so
\* the first symbol of a stack slot that the unification reads is there.
C30_StackExpressionsTyped ==
    Verified =>
        /\ ReadOff
        /\ TypedExpressions(Last.proof.stack)
        /\ \A n \in 0..StepCount :
               /\ TypedExpressions(FirstSteps(n).stack)
               /\ Last.proof.form = "compressed" /\ FirstSteps(n).ended =>
                      TypedExpressions(Saved(n))
        /\ \A r \in References :
               LET h == Len(assertions[r.label].hypotheses)
               IN  \A i \in 1..h :
                       Len(r.stack) >= h =>
                           r.stack[Len(r.stack) - h + i] # <<>>

\* A proof pushed the expression of an assertion on a stack that held another
\* expression
C30_Witness ==
    /\ Verified
    /\ \E r \in References :
           /\ verifyassertionref(App, r.label, r.stack).okay
           /\ Len(verifyassertionref(App, r.label, r.stack).stack) >= 2

\* A regular proof pushed the expression of an assertion
C30_WitnessRegular ==
    /\ Verified /\ Last.proof.form = "regular"
    /\ \E r \in References : verifyassertionref(App, r.label, r.stack).okay

\* A compressed proof saved a step and pushed it
C30_WitnessSaved ==
    /\ Compressed
    /\ Saved(StepCount) # <<>>
    /\ Len(Last.proof.stack) >= 2

\* The variables of assertion A: of its expression, of its mandatory
\* essential hypotheses and of its mandatory disjoint pairs
AssertionVars(A) ==
    VarsIn(A.expression)
    \cup UNION { VarsIn(hypotheses[A.hypotheses[j]].first) :
                 j \in { k \in 1..Len(A.hypotheses) :
                           ~hypotheses[A.hypotheses[k]].second } }
    \cup UNION { { pair[1], pair[2] } : pair \in A.disjvars }

\* The places in A's mandatory list of the floating hypotheses of variable v
FloatingAt(A, v) ==
    { i \in 1..Len(A.hypotheses) :
        /\ hypotheses[A.hypotheses[i]].second
        /\ hypotheses[A.hypotheses[i]].first[2] = v }

\* The substitution map of reference r when its hypothesis j is reached
SubstitutionsBefore(r, j) ==
    LET R == assertions[r.label]
        h == Len(R.hypotheses)
    IN  unify(App, [ R EXCEPT !.hypotheses = SubSeq(@, 1, j - 1) ],
              SubSeq(r.stack, 1, Len(r.stack) - h + j - 1), 1, <<>>)

\* C29: for every assertion, every variable of its expression, of its
\* mandatory essential hypotheses and of its mandatory disjoint pairs is the
\* variable of a floating hypothesis in its mandatory list, placed before
\* every essential hypothesis of the list that mentions the variable. So in
\* verifyassertionref each variable of a disjoint pair has a substitution when
\* it is looked up, and each variable of an essential hypothesis has one when
\* that hypothesis is substituted.
C29_VariablesFloated ==
    /\ \A l \in DOMAIN assertions :
           \A v \in AssertionVars(assertions[l]) :
               /\ FloatingAt(assertions[l], v) # {}
               /\ \A j \in 1..Len(assertions[l].hypotheses) :
                      LET hyp == hypotheses[assertions[l].hypotheses[j]]
                      IN  ~hyp.second /\ v \in VarsIn(hyp.first) =>
                              \E i \in FloatingAt(assertions[l], v) : i < j
    /\ Verified =>
           /\ ~Last.proof.ub
           /\ \A r \in Unified :
                  \A pair \in assertions[r.label].disjvars :
                      { pair[1], pair[2] } \subseteq DOMAIN Substitutions(r)
           /\ \A r \in References :
                  LET R == assertions[r.label]
                  IN  \A j \in 1..Len(R.hypotheses) :
                          /\ Len(r.stack) >= Len(R.hypotheses)
                          /\ ~hypotheses[R.hypotheses[j]].second
                          /\ SubstitutionsBefore(r, j).okay
                          => VarsIn(hypotheses[R.hypotheses[j]].first)
                                 \subseteq
                                 DOMAIN SubstitutionsBefore(r, j).substitutions

\* A proof referred to an assertion with a disjoint pair and the reference
\* got to the lookups of the pair's substitutions
C29_Witness ==
    /\ Verified
    /\ \E r \in Unified : assertions[r.label].disjvars # {}

\* A proof referred to an assertion with an essential hypothesis and the
\* reference got to the substitution of that hypothesis
C29_WitnessEssential ==
    /\ Verified
    /\ \E r \in References :
           LET R == assertions[r.label]
           IN  \E j \in 1..Len(R.hypotheses) :
                   /\ Len(r.stack) >= Len(R.hypotheses)
                   /\ ~hypotheses[R.hypotheses[j]].second
                   /\ SubstitutionsBefore(r, j).okay

\* An axiom was made after a block that gave a floating hypothesis to a
\* variable not in its expression: the hypothesis is not active any more
C29_WitnessAfterBlock ==
    /\ Len(log) > 1 /\ Last.stmt = "$a" /\ Last.okay
    /\ log[Len(log) - 1].stmt = "$}"
    /\ AssertionVars(assertions[Last.label]) # {}
    /\ \E l \in DOMAIN hypotheses :
           hypotheses[l].second /\ ~isactivehyp(App, l)

\* readtokens has returned to run, with what the function gives at once
Returned ==
    /\ call.done
    /\ call.frames = <<>>
    /\ call.okay = Read(text).okay
    /\ names = Read(text).names
    /\ tokens = Read(text).tokens

\* The calls that have not returned read sources of different names, all of
\* them in names
NamesEnteredOnce ==
    /\ \A i \in 1..Len(call.frames) :
           /\ call.frames[i].filename \in names
           /\ \A j \in 1..Len(call.frames) :
                  call.frames[i].filename = call.frames[j].filename => i = j
    /\ Len(call.frames) <= Cardinality(names)

\* C31: readtokens returns for every source, also when a source includes
\* itself or two sources include each other: a name is put in names before
\* its tokens are read, and a name that is in names is not read again, so the
\* calls that are open at one time read sources of different names.
C31_ReadTokensTerminates == []NamesEnteredOnce /\ <>Returned

\* readtokens returned true on two sources that include each other
C31_Witness ==
    /\ call.done /\ call.okay
    /\ { "a.mm", "b.mm" } \subseteq names
    /\ filename # "a.mm"

\* readtokens returned true on a source that includes itself
C31_WitnessSelf ==
    /\ call.done /\ call.okay
    /\ filename = "self.mm"
    /\ tokens # <<>>

\* Three calls were open at once: the source, a.mm in it, and b.mm in a.mm
C31_WitnessDepth ==
    /\ Len(call.frames) = 3
    /\ call.frames[3].filename = "b.mm"

=============================================================================
